---------------------------- MODULE Spec2Model ----------------------------
(***************************************************************************)
(* Model of the NPGR019 shadow-volume renderer (07-ShadowVolumes).         *)
(*                                                                         *)
(* The program is a single-threaded OpenGL client.  Its state is the GL    *)
(* context state it sets (capabilities, masks, stencil/blend setup,        *)
(* buffer and framebuffer bindings), the scene fields (_numCubes,          *)
(* _numLights, the cube and light lists), the render settings changed by   *)
(* the keyboard callback, and the position of the frame in Scene::Draw.    *)
(* Every GL call the code issues is appended to the frame's command log    *)
(* together with the GL state in force when it was issued, so that         *)
(* ordering and "state at the moment of the draw" properties are state     *)
(* predicates.  One sample pixel of each framebuffer is carried along      *)
(* (depth, stencil, accumulated colour contributions) and updated by the   *)
(* per-fragment operations of OpenGL, which decides the stencil claims.    *)
(*                                                                         *)
(* The repository holds two builds of Scene: the classic stencil           *)
(* shadow-volume pipeline and the spotlight shadow-map pipeline; the       *)
(* variable pipeline says which one runs.                                  *)
(***************************************************************************)
EXTENDS Integers, Naturals, Sequences, FiniteSets, TLC

\* ------------------------------------------------------------------------
\* Bounds of the model
\* ------------------------------------------------------------------------

\* Largest object count of the ordinary scenes
MaxCubes == 1
\* Largest light count
MaxLights == 2
\* Frames drawn in one run
MaxFrames == 2
\* Key events and window resizes handled in one run
MaxKeys == 1
\* Depth slots of the sample pixel in front of the far plane
MaxDepth == 3
\* How far past MAX_INSTANCES the oversized scenes go
MaxOver == 2
\* Scene::Update is called while its timer t is below this many units
MaxTime == 8
\* MSAA toggles and window resizes handled in one run of the render-target
\* specification
MaxEvents == 2

\* ------------------------------------------------------------------------
\* Program constants
\* ------------------------------------------------------------------------

\* scene.h: static const unsigned int MAX_INSTANCES = 1024
MAX_INSTANCES == 1024
\* sizeof(InstanceData): one glm::mat3x4 of floats
SizeofInstanceData == 48
\* main.cpp: static const GLsizei MSAA_SAMPLES = 4
MSAA_SAMPLES == 4
\* main.cpp, main: int numLights = 1, int numCubes = 5
NumLightsMain == 1
\* float fov = 45.0f and the limits of the zoom
FovDefault == 45
FovMin == 5
FovLimit == 180
FovMax == 179
NumCubesMain == 5
\* main.cpp, struct Window: DefaultWidth, DefaultHeight
DefaultWidth == 800
DefaultHeight == 600

\* enum class RenderPass
DepthPass == 1
ShadowVolume == 2
DirectLight == 4
AmbientLight == 8
LightPass == 12
\* no draw helper is running
NoPass == 0
\* no light is being processed
NoLight == -1

\* Largest value of the 8-bit stencil buffer, the mask of glStencilFunc
StencilMax == 255

\* Framebuffer object names
FB_WINDOW == 0
FB_HDR == 1
FB_DEPTHMAP == 2

\* Buffer object names
NoBuffer == 0
InstancingBuffer == 1
TransformBlockUBO == 2

\* Depth of the far plane (1.0) and of 0.5 in depth-slot units
DepthFar == MaxDepth + 1
DepthHalf == (MaxDepth + 1) \div 2

VARIABLES
  pipeline,        \* "classic" or "spotlight": the build of Scene that runs
  numCubes,        \* Scene::_numCubes
  numLights,       \* Scene::_numLights / _numPointLights
  numSpotLights,   \* Scene::_numSpotLights (0 in the classic build)
  cubePositions,   \* Scene::_cubePositions
  lights,          \* Scene::_lights
  spotLights,      \* Scene::_spotLights (empty in the classic build)
  t,               \* Scene::Update: static float t
  animate,         \* main.cpp: bool animate
  renderMode,      \* RenderSettings: wireframe, tonemapping, msaaLevel
  carmackReverse,  \* main.cpp: bool carmackReverse
  mainWindow,      \* main.cpp: mainWindow.width and mainWindow.height
  geom,            \* sample pixel: what the geometry rasterises to
  gl,              \* OpenGL context state
  px,              \* sample pixel of every framebuffer
  log,             \* GL commands of the current frame, with the state at issue
  inst,            \* UpdateInstanceData: staging array and mapped buffer accesses
  pc,              \* position of the program
  i,               \* loop index of the running loop
  frame,           \* frames completed
  keys,            \* input events handled
  mainLoop,        \* main.cpp: position of main in mainLoop
  shouldClose,     \* GLFW: the close flag of the window
  iterations,      \* iterations of mainLoop's while loop begun
  driver,          \* what the OpenGL implementation of this run can do
  console,         \* lines printed to stdout by the framebuffer checks
  fov              \* main.cpp: float fov, in degrees

vars == << pipeline, numCubes, numLights, numSpotLights, cubePositions, lights,
           spotLights, t, animate,
           renderMode, carmackReverse, mainWindow, geom, gl, px, log, inst, pc, i, frame,
           keys, mainLoop, shouldClose, iterations, driver, console, fov >>

scene == << pipeline, numCubes, numLights, numSpotLights, cubePositions, lights,
            spotLights, t, geom >>
settings == << renderMode, carmackReverse, animate, fov, mainWindow >>
app == << mainLoop, shouldClose, iterations, driver >>

\* ------------------------------------------------------------------------
\* Integer helpers
\* ------------------------------------------------------------------------

RECURSIVE BitAnd(_, _)
BitAnd(a, b) ==
  IF a = 0 \/ b = 0 THEN 0
  ELSE 2 * BitAnd(a \div 2, b \div 2) + (IF a % 2 = 1 /\ b % 2 = 1 THEN 1 ELSE 0)

Max(a, b) == IF a < b THEN b ELSE a

\* (int)renderPass & mask, as a C condition
HasPass(renderPass, mask) == BitAnd(renderPass, mask) # 0

\* ------------------------------------------------------------------------
\* OpenGL context state and the command log
\* ------------------------------------------------------------------------

Caps == { "GL_MULTISAMPLE", "GL_CULL_FACE", "GL_DEPTH_TEST", "GL_DEPTH_CLAMP",
          "GL_STENCIL_TEST", "GL_BLEND", "GL_FRAMEBUFFER_SRGB" }

AllTrue == << TRUE, TRUE, TRUE, TRUE >>
AllFalse == << FALSE, FALSE, FALSE, FALSE >>
KeepOps == [sfail |-> "GL_KEEP", dpfail |-> "GL_KEEP", dppass |-> "GL_KEEP"]

\* Greatest common divisor of two naturals
RECURSIVE Gcd(_, _)
Gcd(a, b) == IF b = 0 THEN a ELSE Gcd(b, a % b)

\* normalize(v) of a vector in thousandths, kept exact: the shortest integer
\* vector of the same direction; the zero vector has no direction and stays
Normalize(v) ==
  LET mag(x) == IF x < 0 THEN -x ELSE x
      g == Gcd(Gcd(mag(v[1]), mag(v[2])), mag(v[3]))
  IN IF g = 0 THEN v ELSE << v[1] \div g, v[2] \div g, v[3] \div g >>

\* glm::lookAt(eye, center, up): the view transform of an observer at eye
\* facing center, as the three things that determine the matrix
lookAt(eye, center, up) ==
  [ eye     |-> eye,
    forward |-> Normalize(<< center[1] - eye[1], center[2] - eye[2], center[3] - eye[3] >>),
    up      |-> up ]

Origin == << 0, 0, 0 >>
UpVector == << 0, 1000, 0 >>
\* the value of a mat4 uniform that was never set
NoMatrix == [projection |-> "none", view |-> lookAt(Origin, Origin, Origin)]

\* The texture units the program selects and the targets it binds: each unit
\* has one binding per target (0: no texture)
TextureUnits == 0..4
NoTextures == [GL_TEXTURE_2D |-> 0, GL_TEXTURE_2D_MULTISAMPLE |-> 0]

\* State of a fresh OpenGL 3.3 context: of the capabilities only
\* GL_MULTISAMPLE is enabled, and the viewport is the window as created
GLInitial ==
  [ caps        |-> [c \in Caps |-> c = "GL_MULTISAMPLE"],
    cullMode    |-> "GL_BACK",
    polygonMode |-> "GL_FILL",
    depthFunc   |-> "GL_LESS",
    depthMask   |-> TRUE,
    clearDepth  |-> DepthFar,
    colorMask   |-> AllTrue,
    stencilFunc |-> [func |-> "GL_ALWAYS", ref |-> 0, mask |-> StencilMax],
    stencilOp   |-> [front |-> KeepOps, back |-> KeepOps],
    blendEq     |-> "GL_FUNC_ADD",
    blendSrc    |-> "GL_ONE",
    blendDst    |-> "GL_ZERO",
    program     |-> "none",
    vao         |-> "none",
    ubo         |-> NoBuffer,
    uboBase     |-> << NoBuffer, NoBuffer >>,
    fbo         |-> FB_WINDOW,
    readFbo     |-> FB_WINDOW,
    status      |-> [fb \in {FB_WINDOW, FB_HDR, FB_DEPTHMAP} |-> "GL_FRAMEBUFFER_COMPLETE"],
    activeTexture |-> 0,
    tex         |-> [u \in TextureUnits |-> NoTextures],
    lightMatrix |-> NoMatrix,
    textures    |-> {},
    renderbuffers |-> {},
    generated   |-> [textures |-> 0, renderbuffers |-> 0],
    viewport    |-> [width |-> DefaultWidth, height |-> DefaultHeight],
    handles     |-> [renderTarget |-> 0, depthStencil |-> 0, depthMapTexture |-> 0,
                     shaderProgram |-> 0, instancingBuffer |-> 0, vao |-> 0,
                     loadedTextures |-> 0],
    context     |-> "current" ]

\* The running context: GL state, log, sample pixels, and the draw helper's
\* renderPass argument and the light whose data was passed in
Ctx(g, l, p) ==
  [gl |-> g, log |-> l, px |-> p, pass |-> NoPass, loop |-> "", light |-> NoLight,
   lightPosition |-> Origin, lightDirection |-> Origin]

\* Record a command in the log with the state in force
Ev(c, op, arg, val, n) ==
  [c EXCEPT !.log = Append(@, [op |-> op, arg |-> arg, val |-> val, n |-> n, size |-> 0,
                               pass |-> c.pass, loop |-> c.loop, light |-> c.light,
                               gl |-> c.gl])]

WithPass(c, renderPass) == [c EXCEPT !.pass = renderPass]
\* the loop of Draw that runs and its index
WithLight(c, loop, l) == [c EXCEPT !.loop = loop, !.light = l]
\* the lightPosition and lightDirection arguments of the spot light helpers
WithSpotLight(c, sl) ==
  [c EXCEPT !.lightPosition = sl.position, !.lightDirection = sl.lightDirection]

glEnable(c, cap) == Ev([c EXCEPT !.gl.caps[cap] = TRUE], "glEnable", cap, "", 0)
glDisable(c, cap) == Ev([c EXCEPT !.gl.caps[cap] = FALSE], "glDisable", cap, "", 0)
glCullFace(c, mode) == Ev([c EXCEPT !.gl.cullMode = mode], "glCullFace", mode, "", 0)
glPolygonMode(c, mode) == Ev([c EXCEPT !.gl.polygonMode = mode], "glPolygonMode", mode, "", 0)
glDepthFunc(c, f) == Ev([c EXCEPT !.gl.depthFunc = f], "glDepthFunc", f, "", 0)
glDepthMask(c, b) ==
  Ev([c EXCEPT !.gl.depthMask = b], "glDepthMask", IF b THEN "GL_TRUE" ELSE "GL_FALSE", "", 0)
glClearDepth(c, d) == Ev([c EXCEPT !.gl.clearDepth = d], "glClearDepth", "", "", d)
glColorMask(c, r, g, b, a) ==
  Ev([c EXCEPT !.gl.colorMask = << r, g, b, a >>], "glColorMask",
     IF r /\ g /\ b /\ a THEN "true" ELSE IF ~(r \/ g \/ b \/ a) THEN "false" ELSE "mixed", "", 0)
glStencilFunc(c, f, ref, mask) ==
  Ev([c EXCEPT !.gl.stencilFunc = [func |-> f, ref |-> ref, mask |-> mask]],
     "glStencilFunc", f, "", ref)
\* glStencilOp sets both faces
glStencilOp(c, sfail, dpfail, dppass) ==
  LET ops == [sfail |-> sfail, dpfail |-> dpfail, dppass |-> dppass]
  IN Ev([c EXCEPT !.gl.stencilOp = [front |-> ops, back |-> ops]], "glStencilOp", "", "", 0)
glStencilOpSeparate(c, face, sfail, dpfail, dppass) ==
  LET ops == [sfail |-> sfail, dpfail |-> dpfail, dppass |-> dppass]
      key == IF face = "GL_BACK" THEN "back" ELSE "front"
  IN Ev([c EXCEPT !.gl.stencilOp[key] = ops], "glStencilOpSeparate", face, "", 0)
glBlendEquation(c, eq) == Ev([c EXCEPT !.gl.blendEq = eq], "glBlendEquation", eq, "", 0)
glBlendFunc(c, s, d) ==
  Ev([c EXCEPT !.gl.blendSrc = s, !.gl.blendDst = d], "glBlendFunc", s, d, 0)
glUseProgram(c, p) == Ev([c EXCEPT !.gl.program = p], "glUseProgram", p, "", 0)
glBindVertexArray(c, v) == Ev([c EXCEPT !.gl.vao = v], "glBindVertexArray", v, "", 0)
\* glBindBuffer(GL_UNIFORM_BUFFER, b): the generic binding point only
glBindBuffer(c, b) == Ev([c EXCEPT !.gl.ubo = b], "glBindBuffer", "GL_UNIFORM_BUFFER", "", b)
\* glBindBufferBase(GL_UNIFORM_BUFFER, index, b): the indexed binding point
\* and the generic one
glBindBufferBase(c, index, b) ==
  Ev([c EXCEPT !.gl.uboBase[index + 1] = b, !.gl.ubo = b],
     "glBindBufferBase", IF index = 0 THEN "0" ELSE "1", "", b)
\* GL_FRAMEBUFFER binds the draw and the read framebuffer
glBindFramebuffer(c, f) ==
  Ev([c EXCEPT !.gl.fbo = f, !.gl.readFbo = f], "glBindFramebuffer", "GL_FRAMEBUFFER", "", f)
glBindDrawFramebuffer(c, f) ==
  Ev([c EXCEPT !.gl.fbo = f], "glBindFramebuffer", "GL_DRAW_FRAMEBUFFER", "", f)
glBindReadFramebuffer(c, f) ==
  Ev([c EXCEPT !.gl.readFbo = f], "glBindFramebuffer", "GL_READ_FRAMEBUFFER", "", f)
\* A command that writes the draw framebuffer is rejected with
\* GL_INVALID_FRAMEBUFFER_OPERATION while that framebuffer is incomplete
IsComplete(g, fb) == g.status[fb] = "GL_FRAMEBUFFER_COMPLETE"
Written(c, p) == IF IsComplete(c.gl, c.gl.fbo) THEN p ELSE c.px[c.gl.fbo]
\* glBlitFramebuffer(GL_COLOR_BUFFER_BIT): colour of the read framebuffer
\* into the draw framebuffer, both complete
glBlitFramebuffer(c) ==
  Ev([c EXCEPT !.px[c.gl.fbo] =
        IF IsComplete(c.gl, c.gl.readFbo)
        THEN Written(c, [@ EXCEPT !.color = c.px[c.gl.readFbo].color]) ELSE @],
     "glBlitFramebuffer", "GL_COLOR_BUFFER_BIT", "", 0)
\* glBindTexture(target, name): the binding of target on the active unit
glBindTexture(c, target, name) ==
  Ev([c EXCEPT !.gl.tex[c.gl.activeTexture][target] = name],
     "glBindTexture", target, "", c.gl.activeTexture)
\* glActiveTexture(GL_TEXTURE0 + unit); glBindTexture(target, name)
glBindTextureUnit(c, unit, target, name) ==
  glBindTexture([c EXCEPT !.gl.activeTexture = unit], target, name)
glUniform(c, name, val) == Ev(c, "glUniform", name, val, 0)
\* glUniformMatrix4fv of the lightMatrix uniform; val names how it was built
glUniformMatrix4fv(c, name, val, mat) ==
  Ev([c EXCEPT !.gl.lightMatrix = mat], "glUniform", name, val, 0)
\* glBufferSubData(GL_UNIFORM_BUFFER, start, size, member): size bytes of the
\* bound buffer from the byte offset start on
glBufferSubData(c, member, start, size) ==
  LET c1 == Ev(c, "glBufferSubData", member, "", start)
  IN [c1 EXCEPT !.log[Len(c1.log)].size = size]


\* ------------------------------------------------------------------------
\* The sample pixel: per-fragment operations of OpenGL
\* ------------------------------------------------------------------------

\* What the framebuffers hold: the HDR target has colour and a
\* GL_DEPTH24_STENCIL8 attachment, the depth map a depth texture only
HasColor(fb) == fb \in {FB_WINDOW, FB_HDR}
HasDepth(fb) == fb \in {FB_HDR, FB_DEPTHMAP}
HasStencil(fb) == fb = FB_HDR

\* Storage that was allocated and not written yet (glTexImage2D with a null
\* pointer, glTexImage2DMultisample, glRenderbufferStorage) has undefined
\* contents: zeroes where the implementation hands out cleared memory, or
\* what the memory held before, of which the extremes of depth and stencil
\* are followed; 0 is the depth 0.0, in front of every depth slot
ZeroFill == [depth |-> 0, stencil |-> 0, color |-> << >>]
FreshContents ==
  { [depth |-> d, stencil |-> s, color |-> << >>] : d \in {0, DepthFar}, s \in {0, StencilMax} }

Compare(func, a, b) ==
  CASE func = "GL_NEVER"    -> FALSE
    [] func = "GL_ALWAYS"   -> TRUE
    [] func = "GL_LESS"     -> a < b
    [] func = "GL_LEQUAL"   -> a <= b
    [] func = "GL_EQUAL"    -> a = b
    [] func = "GL_NOTEQUAL" -> a # b
    [] func = "GL_GEQUAL"   -> a >= b
    [] func = "GL_GREATER"  -> a > b

\* Stencil update on an 8-bit stencil buffer
ApplyStencilOp(op, s, ref) ==
  CASE op = "GL_KEEP"      -> s
    [] op = "GL_ZERO"      -> 0
    [] op = "GL_REPLACE"   -> ref
    [] op = "GL_INCR"      -> IF s < StencilMax THEN s + 1 ELSE s
    [] op = "GL_DECR"      -> IF s > 0 THEN s - 1 ELSE s
    [] op = "GL_INCR_WRAP" -> (s + 1) % (StencilMax + 1)
    [] op = "GL_DECR_WRAP" -> (s + StencilMax) % (StencilMax + 1)

\* glClear(bits) on the bound framebuffer: colour obeys the colour mask,
\* depth obeys the depth mask, stencil is cleared to 0
ClearPixel(g, p, bits) ==
  [ depth   |-> IF "DEPTH" \in bits /\ HasDepth(g.fbo) /\ g.depthMask
                THEN g.clearDepth ELSE p.depth,
    stencil |-> IF "STENCIL" \in bits /\ HasStencil(g.fbo) THEN 0 ELSE p.stencil,
    color   |-> IF "COLOR" \in bits /\ HasColor(g.fbo) /\ g.colorMask = AllTrue
                THEN << >> ELSE p.color ]

ClearName(bits) ==
  CASE bits = {"COLOR", "DEPTH"} -> "GL_COLOR_BUFFER_BIT|GL_DEPTH_BUFFER_BIT"
    [] bits = {"STENCIL"}        -> "GL_STENCIL_BUFFER_BIT"
    [] bits = {"DEPTH"}          -> "GL_DEPTH_BUFFER_BIT"
    [] bits = {"COLOR"}          -> "GL_COLOR_BUFFER_BIT"

glClear(c, bits) ==
  Ev([c EXCEPT !.px[c.gl.fbo] = Written(c, ClearPixel(c.gl, @, bits))], "glClear", ClearName(bits), "", 0)

\* One fragment of the sample pixel through culling, stencil test, depth
\* test, stencil update, depth write and colour write/blend
FragmentOp(g, p, frag, pass, light) ==
  LET culled == g.caps["GL_CULL_FACE"] /\
                ( (g.cullMode = "GL_BACK" /\ frag.face = "back") \/
                  (g.cullMode = "GL_FRONT" /\ frag.face = "front") )
      stOn   == g.caps["GL_STENCIL_TEST"] /\ HasStencil(g.fbo)
      sf     == g.stencilFunc
      sPass  == ~stOn \/ Compare(sf.func, BitAnd(sf.ref, sf.mask), BitAnd(p.stencil, sf.mask))
      dOn    == g.caps["GL_DEPTH_TEST"] /\ HasDepth(g.fbo)
      dPass  == ~dOn \/ Compare(g.depthFunc, frag.z, p.depth)
      ops    == g.stencilOp[frag.face]
      op     == IF ~sPass THEN ops.sfail ELSE IF ~dPass THEN ops.dpfail ELSE ops.dppass
      alive  == sPass /\ dPass
      tint   == [src |-> frag.src, pass |-> pass, light |-> light]
      blended == IF g.caps["GL_BLEND"] /\ g.blendEq = "GL_FUNC_ADD" /\
                    g.blendSrc = "GL_ONE" /\ g.blendDst = "GL_ONE"
                 THEN Append(p.color, tint) ELSE << tint >>
  IN IF culled THEN p
     ELSE [ depth   |-> IF alive /\ dOn /\ g.depthMask THEN frag.z ELSE p.depth,
            stencil |-> IF stOn THEN ApplyStencilOp(op, p.stencil, sf.ref) ELSE p.stencil,
            color   |-> IF alive /\ HasColor(g.fbo) /\ g.colorMask = AllTrue
                        THEN blended ELSE p.color ]

\* the fragments of a draw at the sample pixel, one after the other; an
\* empty viewport, glViewport(0, 0, 0, 0), leaves no pixel to rasterise
RECURSIVE Rasterize(_, _, _, _, _)
Rasterize(g, p, frags, pass, light) ==
  IF frags = << >> \/ g.viewport.width = 0 \/ g.viewport.height = 0 THEN p
  ELSE Rasterize(g, FragmentOp(g, p, Head(frags), pass, light), Tail(frags), pass, light)

\* ------------------------------------------------------------------------
\* What the meshes rasterise to at the sample pixel
\* ------------------------------------------------------------------------

Faces == {"none", "front", "back"}
\* A shadow volume seen through the pixel: the face crossed at each depth
Volumes == [1..MaxDepth -> Faces]

RECURSIVE VolumeFragsFrom(_, _, _)
\* the crossings of vol at depths z, z+step, ... in that order
VolumeFragsFrom(vol, z, step) ==
  IF z < 1 \/ z > MaxDepth THEN << >>
  ELSE (IF vol[z] = "none" THEN << >> ELSE << [face |-> vol[z], z |-> z, src |-> "volume"] >>)
       \o VolumeFragsFrom(vol, z + step, step)

\* The shadow volume's fragments in the order the primitives are drawn
VolumeFrags(vol, nearFirst) ==
  IF nearFirst THEN VolumeFragsFrom(vol, 1, 1) ELSE VolumeFragsFrom(vol, MaxDepth, -1)

\* The meshes of the scene; gm.edges holds those with a triangle edge through
\* the sample pixel
Sources == {"background", "cube", "volume"}
\* glPolygonMode(GL_FRONT_AND_BACK, mode): GL_FILL rasterises the triangles
\* that cover the pixel, GL_LINE only those with an edge through it
Outlined(g, gm, src) == g.polygonMode = "GL_FILL" \/ src \in gm.edges

QuadFrags(gm) == << [face |-> "front", z |-> gm.bgZ, src |-> "background"] >>
CubeFrags(gm) ==
  IF gm.cubeZ = 0 THEN << >> ELSE << [face |-> "front", z |-> gm.cubeZ, src |-> "cube"] >>

\* glDrawElements(GL_TRIANGLES, quad): the floor or a wall
glDrawElements(c, gm, covers) ==
  LET frags == IF covers /\ Outlined(c.gl, gm, "background") THEN QuadFrags(gm) ELSE << >>
  IN Ev([c EXCEPT !.px[c.gl.fbo] = Written(c, Rasterize(c.gl, @, frags, c.pass, c.light))],
        "glDrawElements", "GL_TRIANGLES", c.gl.vao, 1)

\* glDrawElementsInstanced(mode, mesh of the bound VAO, count): the shadow
\* volume program extrudes volumes from adjacency triangles; every other
\* program has no geometry shader and draws the cubes, from plain triangles
\* or from the triangles of the adjacency mesh, whose adjacent vertices are
\* then ignored
glDrawElementsInstanced(c, gm, mode, count) ==
  LET vol   == IF c.light \in DOMAIN gm.vol THEN gm.vol[c.light] ELSE [z \in 1..MaxDepth |-> "none"]
      frags == IF count < 1 THEN << >>
               ELSE IF c.gl.program = "InstancedShadowVolume"
                    THEN (IF mode = "GL_TRIANGLES_ADJACENCY" /\ c.gl.vao = "cubeAdjacency" /\
                             Outlined(c.gl, gm, "volume")
                          THEN VolumeFrags(vol, gm.nearFirst) ELSE << >>)
                    ELSE (IF ((mode = "GL_TRIANGLES" /\ c.gl.vao = "cube") \/
                              (mode = "GL_TRIANGLES_ADJACENCY" /\ c.gl.vao = "cubeAdjacency")) /\
                             Outlined(c.gl, gm, "cube")
                          THEN CubeFrags(gm) ELSE << >>)
  IN Ev([c EXCEPT !.px[c.gl.fbo] = Written(c, Rasterize(c.gl, @, frags, c.pass, c.light))],
        "glDrawElementsInstanced", mode, c.gl.vao, count)

\* glDrawArrays: the light marker point or the tonemapping triangles, which
\* cover the sample pixel and have no edge through it
glDrawArrays(c, mode, count) ==
  LET frags == IF mode = "GL_TRIANGLES" /\ c.gl.polygonMode = "GL_FILL"
               THEN << [face |-> "front", z |-> 1, src |-> "fullscreen"] >> ELSE << >>
  IN Ev([c EXCEPT !.px[c.gl.fbo] = Written(c, Rasterize(c.gl, @, frags, c.pass, c.light))],
        "glDrawArrays", mode, c.gl.vao, count)


\* ------------------------------------------------------------------------
\* Scene helpers shared by both builds
\* ------------------------------------------------------------------------

RECURSIVE BitOr(_, _)
BitOr(a, b) ==
  IF a = 0 THEN b ELSE IF b = 0 THEN a
  ELSE 2 * BitOr(a \div 2, b \div 2) + (IF a % 2 = 1 \/ b % 2 = 1 THEN 1 ELSE 0)

\* enum LoadedTextures, and _loadedTextures[which]: Scene::Init generates the
\* names one after the other, handles.loadedTextures is the first of them
LoadedTextures ==
  << "White", "Grey", "Blue", "CheckerBoard", "Diffuse", "Normal", "Specular", "Occlusion" >>
LoadedTexture(g, which) ==
  g.handles.loadedTextures + (CHOOSE k \in 1..Len(LoadedTextures) : LoadedTextures[k] = which) - 1

\* Scene::BindTextures: material textures on units 0..3, each as
\* GL_TEXTURE_2D; unit 3 stays the active one
BindTextures(c, diffuse, normal, specular, occlusion) ==
  LET c1 == glBindTextureUnit(c, 0, "GL_TEXTURE_2D", LoadedTexture(c.gl, diffuse))
      c2 == glBindTextureUnit(c1, 1, "GL_TEXTURE_2D", LoadedTexture(c.gl, normal))
      c3 == glBindTextureUnit(c2, 2, "GL_TEXTURE_2D", LoadedTexture(c.gl, specular))
  IN glBindTextureUnit(c3, 3, "GL_TEXTURE_2D", LoadedTexture(c.gl, occlusion))

\* sizeof(glm::mat3x4), the offset of the projection matrix in the block
SizeofMat3x4 == 48
\* sizeof(glm::mat4x4)
SizeofMat4x4 == 64

\* UpdateTransformBlock with the two sizeof operands of the projection write
\* exchanged
UpdateTransformBlock_SizesSwapped(c) ==
  LET c1 == glBindBuffer(c, TransformBlockUBO)
      c2 == glBufferSubData(c1, "worldToView", 0, SizeofMat3x4)
      c3 == glBufferSubData(c2, "projection", SizeofMat4x4, SizeofMat3x4)
  IN glBindBuffer(c3, NoBuffer)

\* UpdateTransformBlock unbinding with glBindBufferBase on index 0
UpdateTransformBlock_UnbindBase(c) ==
  LET c1 == glBindBuffer(c, TransformBlockUBO)
      c2 == glBufferSubData(c1, "worldToView", 0, SizeofMat3x4)
      c3 == glBufferSubData(c2, "projection", SizeofMat3x4, SizeofMat4x4)
  IN glBindBufferBase(c3, 0, NoBuffer)

\* Scene::UpdateTransformBlock: view matrix at offset 0, projection after it
UpdateTransformBlock(c) ==
  LET c1 == glBindBuffer(c, TransformBlockUBO)
      c2 == glBufferSubData(c1, "worldToView", 0, SizeofMat3x4)
      c3 == glBufferSubData(c2, "projection", SizeofMat3x4, SizeofMat4x4)
  IN glBindBuffer(c3, NoBuffer)

\* Size of the instancing buffer: the InstanceBuffer uniform block holds
\* MAX_INSTANCES entries
InstanceBufferSize == MAX_INSTANCES * SizeofInstanceData

\* No access made yet by the running UpdateInstanceData call
InstInitial ==
  [written |-> {}, read |-> {}, copied |-> 0, bytes |-> 0, calls |-> 0,
   overrun |-> FALSE, since |-> 0]

\* What a word of the tracked state holds once an access past the end of the
\* staging vector or of the mapped region has written over it: no buffer name
Clobbered == -1
\* The state an overrun leaves: the binding of index 0 was written over
Overwritten(g) == [g EXCEPT !.uboBase[1] = Clobbered]

\* Scene::UpdateInstanceData, after the loop: bind index 1, map, memcpy of
\* _numCubes entries, unmap, unbind
\* o is what the memcpy does: "ok", or past the end of the mapped region
\* "crash" (the process dies in the memcpy, the buffer mapped and bound) or
\* "corrupt" (the memcpy returns and has written over tracked state)
UploadInstanceData(c, n, o) ==
  LET c1 == glBindBufferBase(c, 1, InstancingBuffer)
      c2 == Ev(c1, "glMapBuffer", "GL_UNIFORM_BUFFER", "GL_WRITE_ONLY", c1.gl.ubo)
      c3 == Ev(IF o = "corrupt" THEN [c2 EXCEPT !.gl = Overwritten(@)] ELSE c2,
               "memcpy", "instanceData", "", n * SizeofInstanceData)
      c4 == Ev(c3, "glUnmapBuffer", "GL_UNIFORM_BUFFER", "", 0)
  IN IF o = "crash" THEN c2 ELSE glBindBufferBase(c4, 1, NoBuffer)

\* The light marker of DrawObjects: a point drawn with blending disabled
DrawLightMarker(c) ==
  LET c1 == glUseProgram(c, "PointRendering")
      c2 == glUniform(c1, "position", "lightPosition")
      c3 == glUniform(c2, "color", "lightColor*0.05")
      c4 == glDisable(c3, "GL_BLEND")
      c5 == glBindVertexArray(c4, "vao")
  IN glDrawArrays(c5, "GL_POINTS", 1)

\* The three quads of the backdrop: floor, Z wall, X wall; the floor covers
\* the sample pixel
DrawQuads(c, gm) ==
  LET c1 == glDrawElements(glUniform(c, "modelToWorld", "floor"), gm, TRUE)
      c2 == glDrawElements(glUniform(c1, "modelToWorld", "wallZ"), gm, FALSE)
  IN glDrawElements(glUniform(c2, "modelToWorld", "wallX"), gm, FALSE)

\* ------------------------------------------------------------------------
\* Classic build: stencil shadow volumes
\* ------------------------------------------------------------------------

\* UpdateProgramData whose second condition repeats the first one
UpdateProgramData_SameMask(c, renderPass) ==
  LET c1 == IF HasPass(renderPass, BitOr(ShadowVolume, LightPass))
            THEN glUniform(c, "lightPosWS",
                           IF HasPass(renderPass, DirectLight) THEN "w=1.0" ELSE "w=0.0")
            ELSE c
  IN IF HasPass(renderPass, BitOr(ShadowVolume, LightPass))
     THEN glUniform(glUniform(c1, "viewPosWS", "camera"), "lightColor",
                    IF HasPass(renderPass, AmbientLight) THEN "w=lightColor.w" ELSE "w=0.0")
     ELSE c1

\* UpdateProgramData with the flags of the two 4th components exchanged
UpdateProgramData_FlagsSwapped(c, renderPass) ==
  LET c1 == IF HasPass(renderPass, BitOr(ShadowVolume, LightPass))
            THEN glUniform(c, "lightPosWS",
                           IF HasPass(renderPass, AmbientLight) THEN "w=1.0" ELSE "w=0.0")
            ELSE c
  IN IF HasPass(renderPass, LightPass)
     THEN glUniform(glUniform(c1, "viewPosWS", "camera"), "lightColor",
                    IF HasPass(renderPass, DirectLight) THEN "w=lightColor.w" ELSE "w=0.0")
     ELSE c1

\* Scene::UpdateProgramData
UpdateProgramData(c, renderPass) ==
  LET c1 == IF HasPass(renderPass, BitOr(ShadowVolume, LightPass))
            THEN glUniform(c, "lightPosWS",
                           IF HasPass(renderPass, DirectLight) THEN "w=1.0" ELSE "w=0.0")
            ELSE c
  IN IF HasPass(renderPass, LightPass)
     THEN glUniform(glUniform(c1, "viewPosWS", "camera"), "lightColor",
                    IF HasPass(renderPass, AmbientLight) THEN "w=lightColor.w" ELSE "w=0.0")
     ELSE c1

\* Scene::DrawBackground
DrawBackground(c0, gm, program, renderPass) ==
  LET c  == WithPass(c0, renderPass)
      c1 == UpdateProgramData(glUseProgram(c, program), renderPass)
      c2 == IF HasPass(renderPass, LightPass)
            THEN BindTextures(c1, "CheckerBoard", "Blue", "Grey", "White") ELSE c1
      c3 == DrawQuads(glBindVertexArray(c2, "quad"), gm)
  IN WithPass(c3, c0.pass)

\* DrawObjects that uploads the instance data itself before drawing
DrawObjects_Reupload(c0, gm, program, renderPass, n) ==
  LET c  == WithPass(c0, renderPass)
      c1 == UpdateProgramData(glUseProgram(c, program), renderPass)
      c2 == glBindBufferBase(UploadInstanceData(c1, n, "ok"), 1, InstancingBuffer)
      c3 == IF HasPass(renderPass, LightPass)
            THEN BindTextures(c2, "Diffuse", "Normal", "Specular", "Occlusion") ELSE c2
      c4 == IF HasPass(renderPass, ShadowVolume)
            THEN glDrawElementsInstanced(glBindVertexArray(c3, "cubeAdjacency"), gm,
                                         "GL_TRIANGLES_ADJACENCY", n)
            ELSE glDrawElementsInstanced(glBindVertexArray(c3, "cube"), gm, "GL_TRIANGLES", n)
      c5 == glBindBufferBase(c4, 1, NoBuffer)
      c6 == IF HasPass(renderPass, AmbientLight) THEN DrawLightMarker(c5) ELSE c5
  IN WithPass(c6, c0.pass)

\* DrawObjects without the unbinding of index 1
DrawObjects_NoUnbind(c0, gm, program, renderPass, n) ==
  LET c  == WithPass(c0, renderPass)
      c1 == UpdateProgramData(glUseProgram(c, program), renderPass)
      c2 == glBindBufferBase(c1, 1, InstancingBuffer)
      c3 == IF HasPass(renderPass, LightPass)
            THEN BindTextures(c2, "Diffuse", "Normal", "Specular", "Occlusion") ELSE c2
      c4 == IF HasPass(renderPass, ShadowVolume)
            THEN glDrawElementsInstanced(glBindVertexArray(c3, "cubeAdjacency"), gm,
                                         "GL_TRIANGLES_ADJACENCY", n)
            ELSE glDrawElementsInstanced(glBindVertexArray(c3, "cube"), gm, "GL_TRIANGLES", n)
      c6 == IF HasPass(renderPass, AmbientLight) THEN DrawLightMarker(c4) ELSE c4
  IN WithPass(c6, c0.pass)

\* DrawObjects that compares the pass with ShadowVolume instead of testing
\* the flag
DrawObjects_ExactPass(c0, gm, program, renderPass, n) ==
  LET c  == WithPass(c0, renderPass)
      c1 == UpdateProgramData(glUseProgram(c, program), renderPass)
      c2 == glBindBufferBase(c1, 1, InstancingBuffer)
      c3 == IF HasPass(renderPass, LightPass)
            THEN BindTextures(c2, "Diffuse", "Normal", "Specular", "Occlusion") ELSE c2
      c4 == IF renderPass = ShadowVolume
            THEN glDrawElementsInstanced(glBindVertexArray(c3, "cubeAdjacency"), gm,
                                         "GL_TRIANGLES_ADJACENCY", n)
            ELSE glDrawElementsInstanced(glBindVertexArray(c3, "cube"), gm, "GL_TRIANGLES", n)
      c5 == glBindBufferBase(c4, 1, NoBuffer)
      c6 == IF HasPass(renderPass, AmbientLight) THEN DrawLightMarker(c5) ELSE c5
  IN WithPass(c6, c0.pass)

\* DrawObjects drawing the light marker in every light pass
DrawObjects_MarkerInLightPass(c0, gm, program, renderPass, n) ==
  LET c  == WithPass(c0, renderPass)
      c1 == UpdateProgramData(glUseProgram(c, program), renderPass)
      c2 == glBindBufferBase(c1, 1, InstancingBuffer)
      c3 == IF HasPass(renderPass, LightPass)
            THEN BindTextures(c2, "Diffuse", "Normal", "Specular", "Occlusion") ELSE c2
      c4 == IF HasPass(renderPass, ShadowVolume)
            THEN glDrawElementsInstanced(glBindVertexArray(c3, "cubeAdjacency"), gm,
                                         "GL_TRIANGLES_ADJACENCY", n)
            ELSE glDrawElementsInstanced(glBindVertexArray(c3, "cube"), gm, "GL_TRIANGLES", n)
      c5 == glBindBufferBase(c4, 1, NoBuffer)
      c6 == IF HasPass(renderPass, LightPass) THEN DrawLightMarker(c5) ELSE c5
  IN WithPass(c6, c0.pass)

\* Scene::DrawObjects
DrawObjects(c0, gm, program, renderPass, n) ==
  LET c  == WithPass(c0, renderPass)
      c1 == UpdateProgramData(glUseProgram(c, program), renderPass)
      c2 == glBindBufferBase(c1, 1, InstancingBuffer)
      c3 == IF HasPass(renderPass, LightPass)
            THEN BindTextures(c2, "Diffuse", "Normal", "Specular", "Occlusion") ELSE c2
      c4 == IF HasPass(renderPass, ShadowVolume)
            THEN glDrawElementsInstanced(glBindVertexArray(c3, "cubeAdjacency"), gm,
                                         "GL_TRIANGLES_ADJACENCY", n)
            ELSE glDrawElementsInstanced(glBindVertexArray(c3, "cube"), gm, "GL_TRIANGLES", n)
      c5 == glBindBufferBase(c4, 1, NoBuffer)
      c6 == IF HasPass(renderPass, AmbientLight) THEN DrawLightMarker(c5) ELSE c5
  IN WithPass(c6, c0.pass)

\* Draw's depthPass lambda
depthPass(c, gm, n) ==
  DrawObjects(DrawBackground(c, gm, "DefaultDepthPass", DepthPass),
              gm, "InstancingDepthPass", DepthPass, n)

\* lightPass that leaves the stencil function of the shadow pass in force
lightPass_NoStencilFunc(c, gm, renderPass, n) ==
  LET c1 == glEnable(c, "GL_BLEND")
      c2 == glBlendEquation(c1, "GL_FUNC_ADD")
      c3 == glBlendFunc(c2, "GL_ONE", "GL_ONE")
      c5 == glStencilOp(c3, "GL_KEEP", "GL_KEEP", "GL_KEEP")
      c6 == DrawBackground(c5, gm, "Default", renderPass)
      c7 == DrawObjects(c6, gm, "Instancing", renderPass, n)
  IN glDisable(c7, "GL_BLEND")

\* lightPass that returns with blending enabled
lightPass_BlendLeftOn(c, gm, renderPass, n) ==
  LET c1 == glEnable(c, "GL_BLEND")
      c2 == glBlendEquation(c1, "GL_FUNC_ADD")
      c3 == glBlendFunc(c2, "GL_ONE", "GL_ONE")
      c4 == glStencilFunc(c3, "GL_EQUAL", 0, StencilMax)
      c5 == glStencilOp(c4, "GL_KEEP", "GL_KEEP", "GL_KEEP")
      c6 == DrawBackground(c5, gm, "Default", renderPass)
  IN DrawObjects(c6, gm, "Instancing", renderPass, n)

\* Draw's lightPass lambda
lightPass(c, gm, renderPass, n) ==
  LET c1 == glEnable(c, "GL_BLEND")
      c2 == glBlendEquation(c1, "GL_FUNC_ADD")
      c3 == glBlendFunc(c2, "GL_ONE", "GL_ONE")
      c4 == glStencilFunc(c3, "GL_EQUAL", 0, StencilMax)
      c5 == glStencilOp(c4, "GL_KEEP", "GL_KEEP", "GL_KEEP")
      c6 == DrawBackground(c5, gm, "Default", renderPass)
      c7 == DrawObjects(c6, gm, "Instancing", renderPass, n)
  IN glDisable(c7, "GL_BLEND")

\* ShadowStencilOps whose depth-fail branch increments for both faces
ShadowStencilOps_BothIncr(c, reverse) ==
  IF reverse
  THEN glStencilOpSeparate(
         glStencilOpSeparate(c, "GL_BACK", "GL_KEEP", "GL_INCR_WRAP", "GL_KEEP"),
         "GL_FRONT", "GL_KEEP", "GL_INCR_WRAP", "GL_KEEP")
  ELSE glStencilOpSeparate(
         glStencilOpSeparate(c, "GL_BACK", "GL_KEEP", "GL_KEEP", "GL_DECR_WRAP"),
         "GL_FRONT", "GL_KEEP", "GL_KEEP", "GL_INCR_WRAP")

\* ShadowStencilOps with the two branches exchanged
ShadowStencilOps_Swapped(c, reverse) ==
  IF reverse
  THEN glStencilOpSeparate(
         glStencilOpSeparate(c, "GL_BACK", "GL_KEEP", "GL_KEEP", "GL_DECR_WRAP"),
         "GL_FRONT", "GL_KEEP", "GL_KEEP", "GL_INCR_WRAP")
  ELSE glStencilOpSeparate(
         glStencilOpSeparate(c, "GL_BACK", "GL_KEEP", "GL_INCR_WRAP", "GL_KEEP"),
         "GL_FRONT", "GL_KEEP", "GL_DECR_WRAP", "GL_KEEP")

\* ShadowStencilOps whose depth-pass branch gives the back faces the
\* increment and the front faces the decrement
ShadowStencilOps_BackIncr(c, reverse) ==
  IF reverse
  THEN glStencilOpSeparate(
         glStencilOpSeparate(c, "GL_BACK", "GL_KEEP", "GL_INCR_WRAP", "GL_KEEP"),
         "GL_FRONT", "GL_KEEP", "GL_DECR_WRAP", "GL_KEEP")
  ELSE glStencilOpSeparate(
         glStencilOpSeparate(c, "GL_BACK", "GL_KEEP", "GL_KEEP", "GL_INCR_WRAP"),
         "GL_FRONT", "GL_KEEP", "GL_KEEP", "GL_DECR_WRAP")

\* The stencil operations shadowPass selects:
\* arguments of glStencilOpSeparate are face, stencil fail, depth fail, depth pass
ShadowStencilOps(c, reverse) ==
  IF reverse
  THEN glStencilOpSeparate(
         glStencilOpSeparate(c, "GL_BACK", "GL_KEEP", "GL_INCR_WRAP", "GL_KEEP"),
         "GL_FRONT", "GL_KEEP", "GL_DECR_WRAP", "GL_KEEP")
  ELSE glStencilOpSeparate(
         glStencilOpSeparate(c, "GL_BACK", "GL_KEEP", "GL_KEEP", "GL_DECR_WRAP"),
         "GL_FRONT", "GL_KEEP", "GL_KEEP", "GL_INCR_WRAP")

\* shadowPass that leaves face culling as it finds it
shadowPass_KeepsCulling(c, gm, reverse, n) ==
  LET c2 == glStencilFunc(c, "GL_ALWAYS", 0, StencilMax)
      c3 == ShadowStencilOps(c2, reverse)
      c4 == DrawObjects(c3, gm, "InstancedShadowVolume", ShadowVolume, n)
  IN glEnable(c4, "GL_CULL_FACE")

\* shadowPass that returns without enabling face culling again
shadowPass_NoReenable(c, gm, reverse, n) ==
  LET c1 == glDisable(c, "GL_CULL_FACE")
      c2 == glStencilFunc(c1, "GL_ALWAYS", 0, StencilMax)
      c3 == ShadowStencilOps(c2, reverse)
  IN DrawObjects(c3, gm, "InstancedShadowVolume", ShadowVolume, n)

\* Draw's shadowPass lambda
shadowPass(c, gm, reverse, n) ==
  LET c1 == glDisable(c, "GL_CULL_FACE")
      c2 == glStencilFunc(c1, "GL_ALWAYS", 0, StencilMax)
      c3 == ShadowStencilOps(c2, reverse)
      c4 == DrawObjects(c3, gm, "InstancedShadowVolume", ShadowVolume, n)
  IN glEnable(c4, "GL_CULL_FACE")

\* SetGlobalState leaving the depth write as the previous frame left it
SetGlobalState_NoDepthMask(c, mode) ==
  LET c1 == IF mode.msaaLevel > 1 THEN glEnable(c, "GL_MULTISAMPLE")
            ELSE glDisable(c, "GL_MULTISAMPLE")
      c2 == glCullFace(glEnable(c1, "GL_CULL_FACE"), "GL_BACK")
      c3 == glPolygonMode(c2, IF mode.wireframe THEN "GL_LINE" ELSE "GL_FILL")
      c4 == glEnable(glEnable(c3, "GL_DEPTH_TEST"), "GL_DEPTH_CLAMP")
  IN glDepthFunc(c4, "GL_LEQUAL")

\* Draw: MSAA, backface culling, polygon mode, depth test, clamp and write
SetGlobalState(c, mode) ==
  LET c1 == IF mode.msaaLevel > 1 THEN glEnable(c, "GL_MULTISAMPLE")
            ELSE glDisable(c, "GL_MULTISAMPLE")
      c2 == glCullFace(glEnable(c1, "GL_CULL_FACE"), "GL_BACK")
      c3 == glPolygonMode(c2, IF mode.wireframe THEN "GL_LINE" ELSE "GL_FILL")
      c4 == glEnable(glEnable(c3, "GL_DEPTH_TEST"), "GL_DEPTH_CLAMP")
  IN glDepthMask(glDepthFunc(c4, "GL_LEQUAL"), TRUE)


\* ------------------------------------------------------------------------
\* Spotlight build: shadow map
\* ------------------------------------------------------------------------

\* Scene::UpdateProgramData of the spotlight build: the depth pass also
\* uploads the light matrix
UpdateProgramData_Spot(c, renderPass) ==
  LET c1 == IF HasPass(renderPass, BitOr(ShadowVolume, LightPass))
            THEN glUniform(c, "lightPosWS",
                           IF HasPass(renderPass, DirectLight) THEN "w=1.0" ELSE "w=0.0")
            ELSE c
      lightView == lookAt(c.lightPosition, Origin, UpVector)
      c2 == IF HasPass(renderPass, DepthPass)
            THEN glUniformMatrix4fv(c1, "lightMatrix",
                                    "projection*lookAt(lightPosition,origin,up)",
                                    [projection |-> "camera", view |-> lightView])
            ELSE c1
  IN IF HasPass(renderPass, LightPass)
     THEN glUniform(glUniform(c2, "viewPosWS", "camera"), "lightColor",
                    IF HasPass(renderPass, AmbientLight) THEN "w=lightColor.w" ELSE "w=0.0")
     ELSE c2

\* Scene::DrawBackground of the spotlight build
DrawBackground_Spot(c0, gm, program, renderPass) ==
  LET c  == WithPass(c0, renderPass)
      c1 == UpdateProgramData_Spot(glUseProgram(c, program), renderPass)
      c2 == IF HasPass(renderPass, LightPass)
            THEN BindTextures(c1, "CheckerBoard", "Blue", "Grey", "White") ELSE c1
      c3 == DrawQuads(glBindVertexArray(c2, "quad"), gm)
  IN WithPass(glBindVertexArray(c3, "none"), c0.pass)

\* Scene::DrawObjects of the spotlight build
DrawObjects_Spot(c0, gm, program, renderPass, n) ==
  LET c  == WithPass(c0, renderPass)
      c1 == UpdateProgramData_Spot(glUseProgram(c, program), renderPass)
      c2 == glBindBufferBase(c1, 1, InstancingBuffer)
      c3 == IF HasPass(renderPass, LightPass)
            THEN BindTextures(c2, "Diffuse", "Normal", "Specular", "Occlusion") ELSE c2
      c4 == glDrawElementsInstanced(glBindVertexArray(c3, "cube"), gm, "GL_TRIANGLES", n)
      c5 == glBindBufferBase(c4, 1, NoBuffer)
      c6 == IF HasPass(renderPass, AmbientLight) THEN DrawLightMarker(c5) ELSE c5
  IN WithPass(glBindVertexArray(c6, "none"), c0.pass)

\* Scene::UpdateProgramDataSpotlights: as UpdateProgramData of the spotlight
\* build, then the cone of the spot light
UpdateProgramDataSpotlights(c, renderPass) ==
  LET c1 == UpdateProgramData_Spot(c, renderPass)
      c2 == glUniform(c1, "lightDirection", "lightDirection")
      c3 == glUniform(c2, "innerAngleDegrees", "innerAngleDegrees")
      c4 == glUniform(c3, "outerAngleDegrees", "outerAngleDegrees")
  IN glUniform(c4, "maxLightDistance", "maxLightDistance")

\* Scene::DrawObjectsSpotlightsShadow: the light passes also bind the shadow
\* map on texture unit 4; the light marker is drawn with the blending of
\* the pass and the vertex array stays bound
DrawObjectsSpotlightsShadow(c0, gm, program, renderPass, n) ==
  LET c  == WithPass(c0, renderPass)
      c1 == UpdateProgramDataSpotlights(glUseProgram(c, program), renderPass)
      c2 == glBindBufferBase(c1, 1, InstancingBuffer)
      c3 == IF HasPass(renderPass, LightPass)
            THEN glBindTextureUnit(BindTextures(c2, "Diffuse", "Normal", "Specular", "Occlusion"),
                                   4, "GL_TEXTURE_2D", c2.gl.handles.depthMapTexture)
            ELSE c2
      c4 == glDrawElementsInstanced(glBindVertexArray(c3, "cube"), gm, "GL_TRIANGLES", n)
      c5 == glBindBufferBase(c4, 1, NoBuffer)
      c6 == IF HasPass(renderPass, AmbientLight)
            THEN LET m1 == glUseProgram(c5, "PointRendering")
                     m2 == glUniform(m1, "position", "lightPosition")
                     m3 == glUniform(m2, "color", "lightColor*0.05")
                 IN glDrawArrays(glBindVertexArray(m3, "vao"), "GL_POINTS", 1)
            ELSE c5
  IN WithPass(c6, c0.pass)

\* Draw's lightPass lambda of the spotlight build
lightPass_Spot(c, gm, renderPass, n) ==
  LET c1 == glEnable(c, "GL_BLEND")
      c2 == glBlendEquation(c1, "GL_FUNC_ADD")
      c3 == glBlendFunc(c2, "GL_ONE", "GL_ONE")
      c4 == DrawBackground_Spot(c3, gm, "Default", renderPass)
      c5 == DrawObjects_Spot(c4, gm, "Instancing", renderPass, n)
  IN glDisable(c5, "GL_BLEND")

\* shadowMapSpotlightPass that ends by binding the window framebuffer
shadowMapSpotlightPass_BindsWindow(c0, gm, n) ==
  LET c1 == glEnable(c0, "GL_BLEND")
      c2 == glBlendEquation(c1, "GL_FUNC_ADD")
      c3 == glBlendFunc(c2, "GL_ONE", "GL_ONE")
      c4 == glUseProgram(c3, "InstancingDepthPass")
      c5 == WithPass(UpdateProgramData_Spot(WithPass(c4, DepthPass), DepthPass), c0.pass)
      c6 == glBindFramebuffer(c5, FB_DEPTHMAP)
      c7 == glClearDepth(c6, DepthHalf)
      c8 == glClear(c7, {"DEPTH"})
      c9 == glClearDepth(c8, DepthFar)
      c10 == glBindBufferBase(c9, 1, InstancingBuffer)
      c11 == glBindVertexArray(c10, "cube")
      c12 == WithPass(glDrawElementsInstanced(WithPass(c11, DepthPass), gm, "GL_TRIANGLES", n),
                      c0.pass)
      c13 == glBindBufferBase(c12, 1, NoBuffer)
      c14 == glBindFramebuffer(c13, FB_WINDOW)
  IN glDisable(c14, "GL_BLEND")

\* Draw's shadowMapSpotlightPass lambda
shadowMapSpotlightPass(c0, gm, n) ==
  LET c1 == glEnable(c0, "GL_BLEND")
      c2 == glBlendEquation(c1, "GL_FUNC_ADD")
      c3 == glBlendFunc(c2, "GL_ONE", "GL_ONE")
      c4 == glUseProgram(c3, "InstancingDepthPass")
      c5 == WithPass(UpdateProgramData_Spot(WithPass(c4, DepthPass), DepthPass), c0.pass)
      previousFramebufferId == c5.gl.fbo
      c6 == glBindFramebuffer(c5, FB_DEPTHMAP)
      c7 == glClearDepth(c6, DepthHalf)
      c8 == glClear(c7, {"DEPTH"})
      c9 == glClearDepth(c8, DepthFar)
      c10 == glBindBufferBase(c9, 1, InstancingBuffer)
      c11 == glBindVertexArray(c10, "cube")
      c12 == WithPass(glDrawElementsInstanced(WithPass(c11, DepthPass), gm, "GL_TRIANGLES", n),
                      c0.pass)
      c13 == glBindBufferBase(c12, 1, NoBuffer)
      c14 == glBindFramebuffer(c13, previousFramebufferId)
  IN glDisable(c14, "GL_BLEND")


\* ------------------------------------------------------------------------
\* renderScene after Scene::Draw: tonemapping to the window, or a blit
\* ------------------------------------------------------------------------

Present(c, mode) ==
  LET c1 == glUseProgram(glBindVertexArray(c, "none"), "none")
  IN IF mode.tonemapping
     THEN LET t1 == glBindFramebuffer(c1, FB_WINDOW)
              t2 == glPolygonMode(t1, "GL_FILL")
              t3 == glDisable(glDisable(t2, "GL_MULTISAMPLE"), "GL_DEPTH_TEST")
              t4 == glClear(t3, {"COLOR"})
              t5 == glUseProgram(t4, "Tonemapping")
              t6 == glUniform(t5, "msaaLevel", IF mode.msaaLevel > 1 THEN "MSAA_SAMPLES" ELSE "1")
              t7 == glBindTextureUnit(t6, 0, IF mode.msaaLevel > 1
                                             THEN "GL_TEXTURE_2D_MULTISAMPLE"
                                             ELSE "GL_TEXTURE_2D",
                                      t6.gl.handles.renderTarget)
              t8 == glDrawArrays(glBindVertexArray(t7, "vao"), "GL_TRIANGLES", 6)
          IN glUseProgram(glBindVertexArray(t8, "none"), "none")
     ELSE glBlitFramebuffer(glBindReadFramebuffer(glBindDrawFramebuffer(c1, FB_WINDOW), FB_HDR))

\* ------------------------------------------------------------------------
\* main.cpp createFramebuffer and Scene::CreateDepthBuffer
\* ------------------------------------------------------------------------

\* Texture and renderbuffer objects: gl.textures and gl.renderbuffers hold the
\* objects that exist, gl.handles the names kept in main's renderTarget and
\* depthStencil and in the scene's depthMapTexture (0: no object)
NamesOf(objects) == { x.name : x \in objects }
\* the names of the scene's loaded textures, once Scene::Init generated them
LoadedNames(g) ==
  IF g.handles.loadedTextures = 0 THEN {}
  ELSE g.handles.loadedTextures..(g.handles.loadedTextures + Len(LoadedTextures) - 1)
\* the texture names in use
TextureNames(g) == NamesOf(g.textures) \cup LoadedNames(g)
\* glGenTextures, glGenRenderbuffers return a name that is not in use; which
\* one is up to the implementation. Two allocators are followed: the one
\* that never returns a name twice and hands out the name after the highest
\* it generated so far ("next"), and the one that returns the lowest name
\* that is not in use ("lowest"); names are the names in use and last is the
\* highest name generated so far, which gl.generated keeps per kind of object
NamePolicies == {"next", "lowest"}
GenName(names, last, policy) ==
  IF policy = "next" THEN last + 1
  ELSE CHOOSE n \in 1..(Cardinality(names) + 1) :
         /\ n \notin names
         /\ \A m \in 1..(n - 1) : m \in names
glIsTexture(g, name) == name \in NamesOf(g.textures)
glIsRenderbuffer(g, name) == name \in NamesOf(g.renderbuffers)
\* the bindings b of a texture unit without the texture name
Unbound(b, name) ==
  [ GL_TEXTURE_2D             |-> IF name # 0 /\ b.GL_TEXTURE_2D = name THEN 0
                                  ELSE b.GL_TEXTURE_2D,
    GL_TEXTURE_2D_MULTISAMPLE |-> IF name # 0 /\ b.GL_TEXTURE_2D_MULTISAMPLE = name THEN 0
                                  ELSE b.GL_TEXTURE_2D_MULTISAMPLE ]
\* glDeleteTextures(1, &name): the object ceases to exist and every binding
\* of it in the context reverts to 0; the name 0 is ignored
glDeleteTextures(c, name) ==
  Ev([c EXCEPT !.gl.textures = { x \in @ : x.name # name },
               !.gl.tex[0] = Unbound(@, name), !.gl.tex[1] = Unbound(@, name),
               !.gl.tex[2] = Unbound(@, name), !.gl.tex[3] = Unbound(@, name),
               !.gl.tex[4] = Unbound(@, name)],
     "glDeleteTextures", "", "", name)
glDeleteRenderbuffers(c, name) ==
  Ev([c EXCEPT !.gl.renderbuffers = { x \in @ : x.name # name }],
     "glDeleteRenderbuffers", "", "", name)
\* glBindTexture(target, name) and glTexImage2D or glTexImage2DMultisample:
\* the texture is bound to target on the active unit and gets its target
\* and, if the implementation stores an image of the size asked for, its
\* storage; samples is 0 without multisampling. A call for an image beyond
\* GL_MAX_TEXTURE_SIZE fails with GL_INVALID_VALUE and the texture keeps
\* the state of a new object: internal format GL_RGBA, no samples
glTexImage(c, name, target, format, samples, stored) ==
  Ev([c EXCEPT !.gl.tex[c.gl.activeTexture][target] = name,
               !.gl.textures = { x \in @ : x.name # name } \cup
                 {[name |-> name, target |-> target,
                   format |-> IF stored THEN format ELSE "GL_RGBA",
                   samples |-> IF stored THEN samples ELSE 0]}],
     IF samples > 0 THEN "glTexImage2DMultisample" ELSE "glTexImage2D", target, format, name)
\* glBindRenderbuffer and glRenderbufferStorage or ...StorageMultisample;
\* beyond GL_MAX_RENDERBUFFER_SIZE the call fails likewise
glRenderbufferStorage(c, name, samples, stored) ==
  Ev([c EXCEPT !.gl.renderbuffers = { x \in @ : x.name # name } \cup
                 {[name |-> name,
                   format |-> IF stored THEN "GL_DEPTH24_STENCIL8" ELSE "GL_RGBA",
                   samples |-> IF stored THEN samples ELSE 0]}],
     IF samples > 0 THEN "glRenderbufferStorageMultisample" ELSE "glRenderbufferStorage",
     "GL_RENDERBUFFER", "GL_DEPTH24_STENCIL8", name)
\* the sample count of the storage createFramebuffer allocates for MSAA
SamplesOf(MSAA) == IF MSAA > 1 THEN MSAA ELSE 0
TargetOf(MSAA) == IF MSAA > 1 THEN "GL_TEXTURE_2D_MULTISAMPLE" ELSE "GL_TEXTURE_2D"

\* CreateRenderTarget keeping the texture it finds, storage included
CreateRenderTarget_Reuse(c, MSAA, impl) ==
  IF glIsTexture(c.gl, c.gl.handles.renderTarget) THEN c
  ELSE LET name == GenName(TextureNames(c.gl), c.gl.generated.textures, impl.names)
           c2 == [c EXCEPT !.gl.handles.renderTarget = name,
                           !.gl.generated.textures = Max(@, name)]
       IN glTexImage(c2, name, TargetOf(MSAA), "GL_RGB16F", SamplesOf(MSAA), impl.stored)

\* createFramebuffer, render target texture: delete it if it is a texture,
\* generate a name if there is none, bind it and allocate its storage; impl
\* is what the implementation does in this call of createFramebuffer
CreateRenderTarget(c, MSAA, impl) ==
  LET c1 == IF glIsTexture(c.gl, c.gl.handles.renderTarget)
            THEN [glDeleteTextures(c, c.gl.handles.renderTarget)
                    EXCEPT !.gl.handles.renderTarget = 0]
            ELSE c
      name == GenName(TextureNames(c1.gl), c1.gl.generated.textures, impl.names)
      c2 == IF c1.gl.handles.renderTarget = 0
            THEN [c1 EXCEPT !.gl.handles.renderTarget = name,
                            !.gl.generated.textures = Max(@, name)]
            ELSE c1
  IN glTexImage(c2, c2.gl.handles.renderTarget, TargetOf(MSAA), "GL_RGB16F", SamplesOf(MSAA),
                impl.stored)

\* createFramebuffer, depth-stencil renderbuffer: the same steps
CreateDepthStencil(c, MSAA, impl) ==
  LET c1 == IF glIsRenderbuffer(c.gl, c.gl.handles.depthStencil)
            THEN [glDeleteRenderbuffers(c, c.gl.handles.depthStencil)
                    EXCEPT !.gl.handles.depthStencil = 0]
            ELSE c
      name == GenName(NamesOf(c1.gl.renderbuffers), c1.gl.generated.renderbuffers,
                      impl.names)
      c2 == IF c1.gl.handles.depthStencil = 0
            THEN [c1 EXCEPT !.gl.handles.depthStencil = name,
                            !.gl.generated.renderbuffers = Max(@, name)]
            ELSE c1
  IN glRenderbufferStorage(c2, c2.gl.handles.depthStencil, SamplesOf(MSAA), impl.stored)

\* Scene::CreateDepthBuffer, depth map texture: glGenTextures into
\* depthMapTexture, bind it on the active unit and allocate
CreateDepthMapTexture(c, impl) ==
  LET name == GenName(TextureNames(c.gl), c.gl.generated.textures, impl.names)
      c1 == [c EXCEPT !.gl.handles.depthMapTexture = name,
                      !.gl.generated.textures = Max(@, name)]
  IN glTexImage(c1, name, "GL_TEXTURE_2D", "GL_DEPTH_COMPONENT32", 0, impl.stored)

\* What glCheckFramebufferStatus can report for the framebuffers created
\* here: complete, an attachment that is not attachment complete (a window
\* of size 0), or a combination of formats the implementation does not
\* support
FramebufferStatuses ==
  { "GL_FRAMEBUFFER_COMPLETE", "GL_FRAMEBUFFER_INCOMPLETE_ATTACHMENT",
    "GL_FRAMEBUFFER_UNSUPPORTED" }
\* What the implementation drv makes of attachments created with the width
\* and height of size, whichever callback creates them: an image of width
\* or height 0, or wider or higher than drv.limit (GL_MAX_TEXTURE_SIZE,
\* GL_MAX_RENDERBUFFER_SIZE), gets no storage and is not attachment
\* complete, and of the other images the combination of formats may not be
\* supported
Verdicts(drv, size) ==
  IF \/ size.width = 0 \/ size.height = 0
     \/ size.width > drv.limit \/ size.height > drv.limit
  THEN {"GL_FRAMEBUFFER_INCOMPLETE_ATTACHMENT"}
  ELSE drv.status \cap {"GL_FRAMEBUFFER_COMPLETE", "GL_FRAMEBUFFER_UNSUPPORTED"}

\* The sizes createFramebuffer is called with: the default size of the
\* window, 0 x 0 of a minimised window, and a window wider than the
\* implementation drv can allocate an image for
DefaultSize == [width |-> DefaultWidth, height |-> DefaultHeight]
WindowSizes(drv) ==
  {DefaultSize, [width |-> 0, height |-> 0], [width |-> drv.limit + 1, height |-> DefaultHeight]}

\* What the storage of the two framebuffers holds when it was allocated,
\* the HDR attachments one of hdr and the depth map, which has no stencil,
\* one of depth
FreshStorage(hdr, depth) ==
  { [fb \in {FB_HDR, FB_DEPTHMAP} |-> IF fb = FB_HDR THEN h ELSE [d EXCEPT !.stencil = 0]] :
      h \in hdr, d \in depth }

\* What an implementation drv can do in one call of createFramebuffer for a
\* window size: the status of each framebuffer with its new attachments,
\* the allocator of the names, the contents of the new storage, whether it
\* stores images of the size (an image of 0 x 0 it does, one beyond
\* drv.limit it does not), and the limit
Behaviours(drv, size) ==
  [ hdr : Verdicts(drv, size), depth : Verdicts(drv, size),
    names : drv.names, fresh : drv.storage,
    stored : {size.width <= drv.limit /\ size.height <= drv.limit},
    limit : {drv.limit} ]

\* The implementation that supports every framebuffer up to 16384 x 16384,
\* never returns a name twice and hands out cleared memory
ClearedDriver ==
  [status |-> {"GL_FRAMEBUFFER_COMPLETE"}, names |-> {"next"},
   storage |-> FreshStorage({ZeroFill}, {ZeroFill}), limit |-> 16384]

\* The last attachment of the bound framebuffer: st is what the
\* implementation makes of the framebuffer with its new attachments
glFramebufferAttach(c, call, attachment, st) ==
  Ev([c EXCEPT !.gl.status[c.gl.fbo] = st], call, attachment, "", c.gl.fbo)
glCheckFramebufferStatus(c) ==
  Ev(c, "glCheckFramebufferStatus", "GL_FRAMEBUFFER", c.gl.status[c.gl.fbo], c.gl.fbo)
printf(c, text, val) == Ev(c, "printf", text, val, 0)
\* glViewport(0, 0, width, height): the viewport, its width and height
\* clamped to the largest the implementation supports
glViewport(c, size, limit) ==
  LET e == Ev([c EXCEPT !.gl.viewport = [width |-> IF size.width > limit THEN limit
                                                   ELSE size.width,
                                         height |-> IF size.height > limit THEN limit
                                                    ELSE size.height]],
              "glViewport", "", "", size.width)
  IN [e EXCEPT !.log[Len(e.log)].size = size.height]
glfwSwapInterval(c, interval) == Ev(c, "glfwSwapInterval", "", "", interval)

\* The lines a run of GL commands printed
Printed(l) ==
  LET lines == SelectSeq(l, LAMBDA e : e.op = "printf")
  IN [k \in 1..Len(lines) |-> [text |-> lines[k].arg, status |-> lines[k].val]]

\* Scene::CreateDepthBuffer; depthMapFBO is 0 before the first call. The
\* depth map is unbound again before it is attached
CreateDepthBuffer(c, depthMapFBO, impl) ==
  LET c1 == IF depthMapFBO = 0 THEN printf(c, "creating depth buffer", "") ELSE c
      c2 == glBindFramebuffer(
              glBindTexture([CreateDepthMapTexture(c1, impl)
                               EXCEPT !.px[FB_DEPTHMAP] = impl.fresh[FB_DEPTHMAP]],
                            "GL_TEXTURE_2D", 0),
              FB_DEPTHMAP)
      c3 == glFramebufferAttach(c2, "glFramebufferTexture2D", "GL_DEPTH_ATTACHMENT",
                                impl.depth)
      c4 == glCheckFramebufferStatus(c3)
      c5 == IF c4.gl.status[FB_DEPTHMAP] # "GL_FRAMEBUFFER_COMPLETE"
            THEN printf(c4, "Failed to create depth framebuffer", c4.gl.status[FB_DEPTHMAP])
            ELSE c4
  IN glBindFramebuffer(c5, FB_WINDOW)

\* createFramebuffer(width, height, MSAA); names holds main's fbo and the
\* scene's depthMapFBO on entry, impl what the implementation does in this
\* call: the status of each framebuffer as it judges the new attachments,
\* the names it generates and what the new storage holds
createFramebuffer_NoRebind(c, names, MSAA, impl) ==
  LET c1 == glBindFramebuffer(c, FB_WINDOW)
      c2 == glBindFramebuffer(c1, FB_HDR)
      c3 == Ev(CreateRenderTarget(c2, MSAA, impl), "glFramebufferTexture2D",
               "GL_COLOR_ATTACHMENT0", TargetOf(MSAA), FB_HDR)
      c4 == glFramebufferAttach([CreateDepthStencil(c3, MSAA, impl)
                                   EXCEPT !.px[FB_HDR] = impl.fresh[FB_HDR]],
                                "glFramebufferRenderbuffer", "GL_DEPTH_STENCIL_ATTACHMENT",
                                impl.hdr)
      c5 == glCheckFramebufferStatus(c4)
  IN IF c5.gl.status[FB_HDR] # "GL_FRAMEBUFFER_COMPLETE"
     THEN printf(c5, "Failed to create framebuffer", c5.gl.status[FB_HDR])
     ELSE CreateDepthBuffer(glBindFramebuffer(c5, FB_WINDOW), names.depthMapFBO, impl)

createFramebuffer(c, names, MSAA, impl) ==
  LET c1 == glBindFramebuffer(c, FB_WINDOW)
      c2 == glBindFramebuffer(c1, FB_HDR)
      c3 == Ev(CreateRenderTarget(c2, MSAA, impl), "glFramebufferTexture2D",
               "GL_COLOR_ATTACHMENT0", TargetOf(MSAA), FB_HDR)
      c4 == glFramebufferAttach([CreateDepthStencil(c3, MSAA, impl)
                                   EXCEPT !.px[FB_HDR] = impl.fresh[FB_HDR]],
                                "glFramebufferRenderbuffer", "GL_DEPTH_STENCIL_ATTACHMENT",
                                impl.hdr)
      c5 == glCheckFramebufferStatus(c4)
      c6 == IF c5.gl.status[FB_HDR] # "GL_FRAMEBUFFER_COMPLETE"
            THEN printf(c5, "Failed to create framebuffer", c5.gl.status[FB_HDR])
            ELSE c5
  IN CreateDepthBuffer(glBindFramebuffer(c6, FB_WINDOW), names.depthMapFBO, impl)

\* The framebuffer names before initOpenGL and from then on
NoNames == [fbo |-> 0, depthMapFBO |-> 0]
Names == [fbo |-> FB_HDR, depthMapFBO |-> FB_DEPTHMAP]
AllComplete ==
  [hdr |-> "GL_FRAMEBUFFER_COMPLETE", depth |-> "GL_FRAMEBUFFER_COMPLETE",
   names |-> "next", fresh |-> [fb \in {FB_HDR, FB_DEPTHMAP} |-> ZeroFill],
   stored |-> TRUE, limit |-> ClearedDriver.limit]

\* ------------------------------------------------------------------------
\* Initial states
\* ------------------------------------------------------------------------

Pipelines == {"classic", "spotlight"}

NoVolume == [z \in 1..MaxDepth |-> "none"]
\* A closed volume entered at depth 1 and left at the last depth slot
Shadowing == [z \in 1..MaxDepth |-> IF z = 1 THEN "front" ELSE IF z = MaxDepth THEN "back" ELSE "none"]

\* Sample pixels of the ordinary scenes: the backdrop just in front of the
\* last depth slot, the cubes (if the scene has any) in front of it, per
\* light no volume or a volume around the visible surface. The pixel lies
\* inside the triangles that cover it, or (unshadowed) on an edge of each.
\* The pixel is shadowed from no light, from one light or from all of them
ShadowChoices(nl) ==
  { v \in [0..(nl - 1) -> {NoVolume, Shadowing}] :
      Cardinality({ l \in 0..(nl - 1) : v[l] = Shadowing }) \in {0, 1, nl} }

MainGeoms(nl) ==
  [ bgZ : {MaxDepth - 1}, cubeZ : {1}, vol : ShadowChoices(nl),
    nearFirst : {TRUE}, edges : {{}} ] \cup
  [ bgZ : {MaxDepth - 1}, cubeZ : {1}, vol : {[l \in 0..(nl - 1) |-> NoVolume]},
    nearFirst : {TRUE}, edges : {Sources} ]

\* The sample pixel of the ordinary scenes that no light shadows
PlainGeom(nl) ==
  [bgZ |-> MaxDepth - 1, cubeZ |-> 1, vol |-> [l \in 0..(nl - 1) |-> NoVolume], nearFirst |-> TRUE,
   edges |-> {}]

\* Every sample pixel inside the triangles that cover it: any backdrop
\* depth, any volume crossing pattern, drawn near-to-far or far-to-near
AllGeoms(nl) ==
  [ bgZ : 1..MaxDepth, cubeZ : {0}, vol : [0..(nl - 1) -> Volumes], nearFirst : BOOLEAN,
    edges : {{}} ]

\* Object counts around MAX_INSTANCES
BigCounts == (MAX_INSTANCES - 1)..(MAX_INSTANCES + MaxOver)

\* Scene::Init pushes the first cube and the first light unconditionally,
\* then one per loop iteration from index 1
PushedFrom(k, n) == Cardinality(k..(n - 1))
InitListSize(n) == 1 + PushedFrom(1, n)

\* ------------------------------------------------------------------------
\* Scene contents: floats are fixed-point numbers in thousandths, angles are
\* multiples of pi/8 and the animation time t counts units of pi/8 seconds
\* ------------------------------------------------------------------------

Milli == 1000

\* Scaling factor and offset of the lights' movement curve
scale == << 13 * Milli, 2 * Milli, 13 * Milli >>
offset == << 0, 3 * Milli, 0 >>

\* sin of k * pi/8 for k = 0..15, in thousandths
SinTable ==
  << 0, 383, 707, 924, 1000, 924, 707, 383, 0, -383, -707, -924, -1000, -924, -707, -383 >>
sinf(a) == SinTable[(a % Len(SinTable)) + 1]
cosf(a) == sinf(a + Len(SinTable) \div 4)

\* float product of two fixed-point numbers
Mul(a, b) == (a * b) \div Milli
\* p * time as an angle: the movement component p is in thousandths
Angle(p, time) == (p * time) \div Milli
VecAdd(a, b) == << a[1] + b[1], a[2] + b[2], a[3] + b[3] >>
VecMul(a, b) == << Mul(a[1], b[1]), Mul(a[2], b[2]), Mul(a[3], b[3]) >>

\* Lissajous curve position for the parameters p at time time
lissajous(p, time) ==
  << sinf(Angle(p[1], time)), cosf(Angle(p[2], time)),
     Mul(sinf(Angle(p[3], time)), cosf(Angle(p[4], time))) >>

\* getRandom(lo, hi): some float of the range; its ends stand for the range
getRandom(lo, hi) == {lo, hi}

\* Scene::Init, cubes: the first cube at (0, 0.5, 0), the others at random
\* positions; the set of lists Init can produce for numCubes = n
FirstCube == << 0, Milli \div 2, 0 >>
RandomCubes ==
  { << x, y, z >> : x \in getRandom(-5 * Milli, 5 * Milli),
                    y \in getRandom(1 * Milli, 5 * Milli),
                    z \in getRandom(-5 * Milli, 5 * Milli) }
InitCubePositions_FromZero(n) ==
  { << FirstCube >> \o rest : rest \in [1..PushedFrom(0, n) -> RandomCubes] }
InitCubePositions(n) ==
  { << FirstCube >> \o rest : rest \in [1..PushedFrom(1, n) -> RandomCubes] }

\* 1e-3f / numLights in thousandths, as numerator and denominator (the
\* float is infinite when the denominator is 0)
AmbientIntensity(nl) == << 1, nl >>

\* Scene::Init, lights: the first light is fixed, the others get random
\* movement parameters and colours and start on their curve at time 0
HeroAnchor == << -3 * Milli, 3 * Milli, 0 >>
HeroMovement == << 0, 1 * Milli, 0, 0 >>
HeroColor == 10 * Milli
FirstLight(nl) ==
  [ position |-> HeroAnchor,
    color |-> << HeroColor, HeroColor, HeroColor, AmbientIntensity(nl) >>,
    movement |-> HeroMovement ]
MovementRange == getRandom(-2 * Milli, 2 * Milli)
ColorRange == getRandom(0, 5 * Milli)
RandomLights(nl) ==
  { [ position |-> VecAdd(offset, VecMul(lissajous(p, 0), scale)),
      color |-> << r, g, b, AmbientIntensity(nl) >>,
      movement |-> p ] :
    p \in MovementRange \X MovementRange \X MovementRange \X MovementRange,
    r \in ColorRange, g \in ColorRange, b \in ColorRange }
InitLights_FromZero(nl) ==
  { << FirstLight(nl) >> \o rest : rest \in [1..PushedFrom(0, nl) -> RandomLights(nl)] }
InitLights(nl) ==
  { << FirstLight(nl) >> \o rest : rest \in [1..PushedFrom(1, nl) -> RandomLights(nl)] }

\* Scene::Init of the spotlight build: one spot light
SpotAnchor == << -3 * Milli, 2 * Milli, 0 >>
SpotMovement == << 2 * Milli, 1 * Milli, 1 * Milli, 0 >>
spotLightDirection == << Milli \div 2, -(Milli \div 2), 0 >>
InitSpotLights(pipe, nl) ==
  IF pipe = "spotlight"
  THEN << [ position |-> SpotAnchor,
            color |-> << HeroColor, HeroColor, HeroColor, AmbientIntensity(nl) >>,
            movement |-> SpotMovement,
            lightDirection |-> spotLightDirection ] >>
  ELSE << >>

\* The lists Init produces when every getRandom returns the same end of its
\* range: the upper one, or the lower one
EndOf(lo, hi, upper) == IF upper THEN hi ELSE lo
EndCubes(n, upper) ==
  << FirstCube >> \o
    [k \in 1..PushedFrom(1, n) |->
       << EndOf(-5 * Milli, 5 * Milli, upper), EndOf(1 * Milli, 5 * Milli, upper),
          EndOf(-5 * Milli, 5 * Milli, upper) >>]
EndLight(nl, upper) ==
  LET m == EndOf(-2 * Milli, 2 * Milli, upper)
      p == << m, m, m, m >>
      k == EndOf(0, 5 * Milli, upper)
  IN [ position |-> VecAdd(offset, VecMul(lissajous(p, 0), scale)),
       color |-> << k, k, k, AmbientIntensity(nl) >>,
       movement |-> p ]
EndLights(nl, upper) ==
  << FirstLight(nl) >> \o [k \in 1..PushedFrom(1, nl) |-> EndLight(nl, upper)]

\* renderMode as main.cpp initialises it
RenderModeInitial ==
  [vsync |-> TRUE, wireframe |-> FALSE, tonemapping |-> TRUE, msaaLevel |-> MSAA_SAMPLES]
\* initOpenGL once the window and the context exist and the entry points are
\* loaded: glfwSwapInterval by the vsync setting, sRGB conversion on, then
\* resizeCallback at the default size, which sets the viewport and creates
\* the framebuffers
initOpenGL(c, mode, impl) ==
  LET c1 == glfwSwapInterval(c, IF mode.vsync THEN 1 ELSE 0)
      c2 == glEnable(c1, "GL_FRAMEBUFFER_SRGB")
  IN createFramebuffer(glViewport(c2, DefaultSize, impl.limit), NoNames, mode.msaaLevel, impl)
\* compileShaders on success: shaderProgram holds the programs
Compiled(g) == [g EXCEPT !.handles.shaderProgram = 1]
\* Scene::Init, GPU objects: the VAO, the instancing buffer with its storage,
\* the transform block with its storage, bound to index 0, and the loaded
\* textures, whose names are generated one after the other
SceneObjects(c, policy) ==
  LET first == GenName(TextureNames(c.gl), c.gl.generated.textures, policy)
      c1 == Ev([c EXCEPT !.gl.handles.vao = 1], "glGenVertexArrays", "_vao", "", 1)
      c2 == Ev([c1 EXCEPT !.gl.handles.instancingBuffer = InstancingBuffer],
               "glGenBuffers", "_instancingBuffer", "", InstancingBuffer)
      c3 == glBindBuffer(c2, InstancingBuffer)
      c4 == Ev(c3, "glBufferData", "GL_UNIFORM_BUFFER", "GL_DYNAMIC_DRAW", InstancingBuffer)
      c5 == glBindBuffer(c4, NoBuffer)
      c6 == Ev(c5, "glGenBuffers", "_transformBlockUBO", "", TransformBlockUBO)
      c7 == glBindBuffer(c6, TransformBlockUBO)
      c8 == Ev(c7, "glBufferData", "GL_UNIFORM_BUFFER", "GL_DYNAMIC_DRAW", TransformBlockUBO)
      c9 == glBindBufferBase(c8, 0, TransformBlockUBO)
      c10 == glBindBuffer(c9, NoBuffer)
  IN Ev([c10 EXCEPT !.gl.handles.loadedTextures = first,
                    !.gl.generated.textures = Max(@, first + Len(LoadedTextures) - 1)],
        "glGenTextures", "_loadedTextures", "", first)

\* State on entry to mainLoop, after initOpenGL created the window and, on
\* an implementation that did impl, the framebuffers, compileShaders and
\* Scene::Init(nc, nl): index 0 of the uniform buffer bindings holds the
\* transform block
MainInitWith(pipe, nc, nl, gm, reverse, cubes, lts, drv, impl) ==
  /\ pipeline = pipe
  /\ numCubes = nc
  /\ numLights = nl
  /\ numSpotLights = IF pipe = "spotlight" THEN 1 ELSE 0
  /\ cubePositions = cubes
  /\ lights = lts
  /\ spotLights = InitSpotLights(pipe, nl)
  /\ t = 0
  /\ animate = FALSE
  /\ renderMode = RenderModeInitial
  /\ carmackReverse = reverse
  /\ fov = FovDefault
  /\ mainWindow = DefaultSize
  /\ geom = gm
  /\ LET opened == initOpenGL(Ctx(GLInitial, << >>,
                                  [fb \in {FB_WINDOW, FB_HDR, FB_DEPTHMAP} |-> ZeroFill]),
                              RenderModeInitial, impl)
         inited == SceneObjects([opened EXCEPT !.gl = Compiled(@)], impl.names)
     IN /\ gl = inited.gl
        /\ px = inited.px
        /\ console = Printed(opened.log)
  /\ log = << >>
  /\ inst = InstInitial
  /\ pc = "idle"
  /\ i = 0
  /\ frame = 0
  /\ keys = 0
  /\ mainLoop = "while"
  /\ shouldClose = FALSE
  /\ iterations = 0
  /\ driver = drv

\* The same on the implementation that supports every framebuffer, never
\* returns a name twice and hands out cleared memory
SceneInitWith(pipe, nc, nl, gm, reverse, cubes, lts) ==
  MainInitWith(pipe, nc, nl, gm, reverse, cubes, lts, ClearedDriver, AllComplete)

\* Scene::Init(nc, nl), for every outcome of its getRandom calls
SceneInit(pipe, nc, nl, gm, reverse) ==
  \E cubes \in InitCubePositions(nc), lts \in InitLights(nl) :
    SceneInitWith(pipe, nc, nl, gm, reverse, cubes, lts)

\* Scene::Init(nc, nl) with every getRandom at one end of its range
SceneInitAt(pipe, nc, nl, gm, reverse, upper) ==
  SceneInitWith(pipe, nc, nl, gm, reverse, EndCubes(nc, upper), EndLights(nl, upper))

\* The program as started by main, for every small scene: without cubes
\* or with the most, with every number of lights, the random cubes and
\* lights at either end of their ranges
Init ==
  \E pipe \in Pipelines, nc \in {0, MaxCubes}, nl \in 0..MaxLights, upper \in BOOLEAN :
    SceneInitAt(pipe, nc, nl, PlainGeom(nl), TRUE, upper)

\* The same scenes with every sample pixel of MainGeoms, on an implementation
\* whose new HDR storage holds the depth 0.0 or the depth 1.0
PixelsDriver ==
  [ClearedDriver EXCEPT
     !.storage = FreshStorage({ZeroFill, [ZeroFill EXCEPT !.depth = DepthFar]}, {ZeroFill})]
InitPixels ==
  \E pipe \in Pipelines, nc \in {0, MaxCubes}, nl \in 0..MaxLights :
    \E gm \in MainGeoms(nl), impl \in Behaviours(PixelsDriver, DefaultSize) :
      MainInitWith(pipe, nc, nl, gm, TRUE, EndCubes(nc, FALSE), EndLights(nl, FALSE),
                   PixelsDriver, impl)


\* ------------------------------------------------------------------------
\* Actions
\* ------------------------------------------------------------------------

Cur == Ctx(gl, log, px)
Apply(c) == gl' = c.gl /\ log' = c.log /\ px' = c.px

\* renderScene: bind the HDR framebuffer, call Scene::Draw
BeginFrame ==
  /\ pc = "idle"
  /\ frame < MaxFrames
  /\ Apply(glBindFramebuffer(Ctx(gl, << >>, px), FB_HDR))
  /\ pc' = "Draw"
  /\ UNCHANGED << scene, app, console, settings, inst, i, frame, keys >>

\* Draw: UpdateTransformBlock(camera)
Draw_UpdateTransformBlock ==
  /\ pc = "Draw"
  /\ Apply(UpdateTransformBlock(Cur))
  /\ inst' = [InstInitial EXCEPT !.calls = inst.calls + 1, !.overrun = inst.overrun]
  /\ i' = 0
  /\ pc' = "UpdateInstanceData"
  /\ UNCHANGED << scene, app, console, settings, frame, keys >>

\* What an access past the end of the staging vector or of the mapped
\* region can do: end the process at once ("crash"), or return, with the
\* tracked OpenGL state intact ("ok") or written over ("corrupt"); after
\* either return the process runs on and may be killed at any later command
Outcomes(inBounds) == IF inBounds THEN {"ok"} ELSE {"ok", "crash", "corrupt"}

\* the accesses of inst after an access that was within bounds or not and
\* had the outcome o, the last command issued before it being number k of
\* the frame: an access out of bounds that returned is remembered
Overrun(in, inBounds, o, k) ==
  IF ~inBounds /\ o # "crash" /\ ~in.overrun
  THEN [in EXCEPT !.overrun = TRUE, !.since = k] ELSE in

\* UpdateInstanceData: one iteration of the loop over the cubes, reading
\* _cubePositions[i] and writing instanceData[i]
UpdateInstanceData_Loop ==
  /\ pc = "UpdateInstanceData"
  /\ i < numCubes
  /\ i' = i + 1
  /\ \E o \in Outcomes(i < Len(cubePositions) /\ i < MAX_INSTANCES) :
       /\ inst' = Overrun([inst EXCEPT !.read = @ \cup {i}, !.written = @ \cup {i}],
                          i < Len(cubePositions) /\ i < MAX_INSTANCES, o, Len(log))
       /\ gl' = IF o = "corrupt" THEN Overwritten(gl) ELSE gl
       /\ pc' = IF o = "crash" THEN "crashed" ELSE pc
  /\ UNCHANGED << scene, app, console, settings, px, log, frame, keys >>

\* UpdateInstanceData_Upload copying the whole staging vector
UpdateInstanceData_Upload_All ==
  /\ pc = "UpdateInstanceData"
  /\ ~(i < numCubes)
  /\ Apply(UploadInstanceData(Cur, MAX_INSTANCES, "ok"))
  /\ inst' = [inst EXCEPT !.copied = MAX_INSTANCES, !.bytes = MAX_INSTANCES * SizeofInstanceData]
  /\ pc' = "GlobalState"
  /\ UNCHANGED << scene, app, console, settings, i, frame, keys >>

\* UpdateInstanceData: loop done, upload _numCubes entries
UpdateInstanceData_Upload ==
  /\ pc = "UpdateInstanceData"
  /\ ~(i < numCubes)
  /\ \E o \in Outcomes(numCubes <= MAX_INSTANCES /\
                       numCubes * SizeofInstanceData <= InstanceBufferSize) :
       /\ Apply(UploadInstanceData(Cur, numCubes, o))
       /\ inst' = Overrun([inst EXCEPT !.copied = numCubes,
                                       !.bytes = numCubes * SizeofInstanceData],
                          numCubes <= MAX_INSTANCES /\
                          numCubes * SizeofInstanceData <= InstanceBufferSize,
                          o, Len(log) + 3)
       /\ pc' = IF o = "crash" THEN "crashed" ELSE "GlobalState"
  /\ UNCHANGED << scene, app, console, settings, i, frame, keys >>

\* After an access out of bounds returned, the process is killed at a later
\* command, in UpdateInstanceData, in the rest of Draw (glClear, a glUniform,
\* glDepthMask) or after it: the commands of the frame it issued are the
\* first k, the state is the one after the last of them, and the
\* framebuffers go with the process
Draw_Killed ==
  /\ pc # "crashed"
  /\ inst.overrun
  /\ \E k \in 1..Len(log) :
       /\ k >= inst.since
       /\ log' = SubSeq(log, 1, k)
       /\ gl' = IF k = Len(log) THEN gl ELSE log[k].gl
  /\ px' = [fb \in {FB_WINDOW, FB_HDR, FB_DEPTHMAP} |-> ZeroFill]
  /\ pc' = "crashed"
  /\ i' = 0
  /\ UNCHANGED << scene, app, console, settings, inst, frame, keys >>

\* Draw: global state setup
Draw_GlobalState ==
  /\ pc = "GlobalState"
  /\ Apply(SetGlobalState(Cur, renderMode))
  /\ pc' = "Clear"
  /\ UNCHANGED << scene, app, console, settings, inst, i, frame, keys >>

\* Draw_Clear going on to the depth mask, the pre-pass left out
Draw_Clear_NoPrePass ==
  /\ pc = "Clear"
  /\ Apply(glClear(Cur, {"COLOR", "DEPTH"}))
  /\ pc' = IF pipeline = "classic" THEN "DepthMaskOff"
           ELSE IF 0 < numSpotLights THEN "ShadowMaps"
           ELSE IF 0 < numLights THEN "PointLights" ELSE "Restore"
  /\ i' = 0
  /\ UNCHANGED << scene, app, console, settings, inst, frame, keys >>

\* Draw: clear the colour and depth buffer
Draw_Clear ==
  /\ pc = "Clear"
  /\ Apply(glClear(Cur, {"COLOR", "DEPTH"}))
  /\ pc' = IF pipeline = "classic" THEN "DepthPrePass"
           ELSE IF 0 < numSpotLights THEN "ShadowMaps"
           ELSE IF 0 < numLights THEN "PointLights" ELSE "Restore"
  /\ i' = 0
  /\ UNCHANGED << scene, app, console, settings, inst, frame, keys >>

\* Classic Draw: colour write off, depthPass()
Classic_DepthPrePass ==
  /\ pc = "DepthPrePass"
  /\ Apply(depthPass(glColorMask(Cur, FALSE, FALSE, FALSE, FALSE), geom, numCubes))
  /\ pc' = "DepthMaskOff"
  /\ UNCHANGED << scene, app, console, settings, inst, i, frame, keys >>

\* Classic_DepthMaskOff with the loop condition i <= _numLights
Classic_DepthMaskOff_LoopOffByOne ==
  /\ pc = "DepthMaskOff"
  /\ Apply(glDepthMask(Cur, FALSE))
  /\ i' = 0
  /\ pc' = IF 0 <= numLights THEN "StencilClear" ELSE "Restore"
  /\ UNCHANGED << scene, app, console, settings, inst, frame, keys >>

\* Classic_DepthMaskOff without the glDepthMask(GL_FALSE)
Classic_DepthMaskOff_Missing ==
  /\ pc = "DepthMaskOff"
  /\ i' = 0
  /\ pc' = IF 0 < numLights THEN "StencilClear" ELSE "Restore"
  /\ UNCHANGED << scene, app, console, settings, gl, px, log, inst, frame, keys >>

\* Classic Draw: glDepthMask(GL_FALSE), then the loop over the lights starts
Classic_DepthMaskOff ==
  /\ pc = "DepthMaskOff"
  /\ Apply(glDepthMask(Cur, FALSE))
  /\ i' = 0
  /\ pc' = IF 0 < numLights THEN "StencilClear" ELSE "Restore"
  /\ UNCHANGED << scene, app, console, settings, inst, frame, keys >>

\* Classic_StencilClear that enables the test but does not clear
Classic_StencilClear_NoClear ==
  /\ pc = "StencilClear"
  /\ LET c == WithLight(Cur, "lights", i)
     IN Apply(glEnable(c, "GL_STENCIL_TEST"))
  /\ pc' = "ShadowPass"
  /\ UNCHANGED << scene, app, console, settings, inst, i, frame, keys >>

\* Light loop: clear the stencil buffer, enable the stencil test
Classic_StencilClear ==
  /\ pc = "StencilClear"
  /\ LET c == WithLight(Cur, "lights", i)
     IN Apply(glEnable(glClear(c, {"STENCIL"}), "GL_STENCIL_TEST"))
  /\ pc' = "ShadowPass"
  /\ UNCHANGED << scene, app, console, settings, inst, i, frame, keys >>

\* Light loop: colour write off, shadowPass(light i)
Classic_ShadowPass ==
  /\ pc = "ShadowPass"
  /\ LET c == WithLight(Cur, "lights", i)
     IN Apply(shadowPass(glColorMask(c, FALSE, FALSE, FALSE, FALSE), geom,
                         carmackReverse, numCubes))
  /\ pc' = "DirectLight"
  /\ UNCHANGED << scene, app, console, settings, inst, i, frame, keys >>

\* Light loop: colour write on, lightPass(DirectLight, light i)
Classic_DirectLight ==
  /\ pc = "DirectLight"
  /\ LET c == WithLight(Cur, "lights", i)
     IN Apply(lightPass(glColorMask(c, TRUE, TRUE, TRUE, TRUE), geom, DirectLight, numCubes))
  /\ pc' = "AmbientLight"
  /\ UNCHANGED << scene, app, console, settings, inst, i, frame, keys >>

\* Classic_AmbientLight without the glDisable(GL_STENCIL_TEST)
Classic_AmbientLight_StencilOn ==
  /\ pc = "AmbientLight"
  /\ LET c == WithLight(Cur, "lights", i)
     IN Apply(lightPass(c, geom, AmbientLight, numCubes))
  /\ i' = i + 1
  /\ pc' = IF i + 1 < numLights THEN "StencilClear" ELSE "Restore"
  /\ UNCHANGED << scene, app, console, settings, inst, frame, keys >>

\* Light loop: stencil test off, lightPass(AmbientLight, light i), next light
Classic_AmbientLight ==
  /\ pc = "AmbientLight"
  /\ LET c == WithLight(Cur, "lights", i)
     IN Apply(lightPass(glDisable(c, "GL_STENCIL_TEST"), geom, AmbientLight, numCubes))
  /\ i' = i + 1
  /\ pc' = IF i + 1 < numLights THEN "StencilClear" ELSE "Restore"
  /\ UNCHANGED << scene, app, console, settings, inst, frame, keys >>

\* Spot_ShadowMap without the glColorMask(false, false, false, false)
Spot_ShadowMap_ColourOn ==
  /\ pc = "ShadowMaps"
  /\ LET c == WithSpotLight(WithLight(Cur, "shadowMaps", i), spotLights[i + 1])
     IN Apply(shadowMapSpotlightPass(c,
                                     geom, numCubes))
  /\ i' = IF i + 1 < numSpotLights THEN i + 1 ELSE 0
  /\ pc' = IF i + 1 < numSpotLights THEN "ShadowMaps"
           ELSE IF 0 < numLights THEN "PointLights"
           ELSE IF 0 < numSpotLights THEN "SpotLights" ELSE "Restore"
  /\ UNCHANGED << scene, app, console, settings, inst, frame, keys >>

\* Spotlight Draw, first loop: colour write off, shadow map of spot light i
Spot_ShadowMap ==
  /\ pc = "ShadowMaps"
  /\ LET c == WithSpotLight(WithLight(Cur, "shadowMaps", i), spotLights[i + 1])
     IN Apply(shadowMapSpotlightPass(glColorMask(c, FALSE, FALSE, FALSE, FALSE),
                                     geom, numCubes))
  /\ i' = IF i + 1 < numSpotLights THEN i + 1 ELSE 0
  /\ pc' = IF i + 1 < numSpotLights THEN "ShadowMaps"
           ELSE IF 0 < numLights THEN "PointLights"
           ELSE IF 0 < numSpotLights THEN "SpotLights" ELSE "Restore"
  /\ UNCHANGED << scene, app, console, settings, inst, frame, keys >>

\* Spotlight Draw, loop over the point lights: colour write on,
\* lightPass(DirectLight, light i)
Spot_PointLight ==
  /\ pc = "PointLights"
  /\ LET c == WithLight(Cur, "pointLights", i)
     IN Apply(lightPass_Spot(glColorMask(c, TRUE, TRUE, TRUE, TRUE), geom,
                             DirectLight, numCubes))
  /\ i' = IF i + 1 < numLights THEN i + 1 ELSE 0
  /\ pc' = IF i + 1 < numLights THEN "PointLights"
           ELSE IF 0 < numSpotLights THEN "SpotLights" ELSE "Restore"
  /\ UNCHANGED << scene, app, console, settings, inst, frame, keys >>

\* Spotlight Draw, loop over the spot lights: colour write on; the
\* spotLightPass calls are commented out
Spot_SpotLight ==
  /\ pc = "SpotLights"
  /\ LET c == WithLight(Cur, "spotLights", i)
     IN Apply(glColorMask(c, TRUE, TRUE, TRUE, TRUE))
  /\ i' = i + 1
  /\ pc' = IF i + 1 < numSpotLights THEN "SpotLights" ELSE "Restore"
  /\ UNCHANGED << scene, app, console, settings, inst, frame, keys >>

\* Draw returning without the final glColorMask
Draw_Restore_Missing ==
  /\ pc = "Restore"
  /\ pc' = "Present"
  /\ UNCHANGED << scene, app, console, settings, gl, px, log, inst, i, frame, keys >>

\* Draw, last statement: leave the colour write enabled; Draw returns
Draw_Restore ==
  /\ pc = "Restore"
  /\ Apply(glColorMask(Cur, TRUE, TRUE, TRUE, TRUE))
  /\ pc' = "Present"
  /\ UNCHANGED << scene, app, console, settings, inst, i, frame, keys >>

\* renderScene after Draw, glfwSwapBuffers, back to the top of mainLoop
RenderScene_Present ==
  /\ pc = "Present"
  /\ Apply(Present(Cur, renderMode))
  /\ pc' = "idle"
  /\ frame' = frame + 1
  /\ UNCHANGED << scene, app, console, settings, inst, i, keys >>

\* The keys keyCallback tests and the actions GLFW reports of a key
ZoomInKeys == {"GLFW_KEY_KP_ADD", "GLFW_KEY_EQUAL"}
ZoomOutKeys == {"GLFW_KEY_KP_SUBTRACT", "GLFW_KEY_MINUS"}
KeyActions == {"GLFW_PRESS", "GLFW_RELEASE", "GLFW_REPEAT"}

\* keyCallback, the two zoom conditions as C++ parses them: && binds tighter
\* than ||
IsZoomIn(key, action) ==
  key = "GLFW_KEY_KP_ADD" \/ (key = "GLFW_KEY_EQUAL" /\ action = "GLFW_PRESS")
IsZoomOut(key, action) ==
  key = "GLFW_KEY_KP_SUBTRACT" \/ (key = "GLFW_KEY_MINUS" /\ action = "GLFW_PRESS")

\* keyCallback, the statements on fov: zoom in, zoom out, reset
ZoomedFov(f, key, action) ==
  LET f1 == IF IsZoomIn(key, action)
            THEN (IF f - 1 < FovMin THEN FovMin ELSE f - 1) ELSE f
      f2 == IF IsZoomOut(key, action)
            THEN (IF f1 + 1 >= FovLimit THEN FovMax ELSE f1 + 1) ELSE f1
  IN IF key = "GLFW_KEY_BACKSPACE" /\ action = "GLFW_PRESS" THEN FovDefault ELSE f2

Keys ==
  {"GLFW_KEY_ESCAPE", "GLFW_KEY_F1", "GLFW_KEY_F2", "GLFW_KEY_F3", "GLFW_KEY_F4",
   "GLFW_KEY_F5", "GLFW_KEY_F6", "GLFW_KEY_BACKSPACE"} \cup ZoomInKeys \cup ZoomOutKeys

\* keyCallback(window, key, scancode, action, mods), run by glfwPollEvents at
\* the top of mainLoop. Escape requests the close; F1 toggles MSAA and
\* re-creates the framebuffers at the size of the window, which leaves the
\* window framebuffer bound; F2, F3, F4, F5 and F6 toggle wireframe, vsync
\* (with glfwSwapInterval), tonemapping, the animation and Carmack's
\* reverse; then the statements on fov. The log keeps the event and the
\* value of fov on entry, then the GL commands of the callback.
keyCallback(key, action) ==
  LET press(k) == key = k /\ action = "GLFW_PRESS"
      msaa == IF press("GLFW_KEY_F1")
              THEN (IF renderMode.msaaLevel > 1 THEN 1 ELSE MSAA_SAMPLES)
              ELSE renderMode.msaaLevel
      mode == [vsync |-> (renderMode.vsync # press("GLFW_KEY_F3")),
               wireframe |-> (renderMode.wireframe # press("GLFW_KEY_F2")),
               tonemapping |-> (renderMode.tonemapping # press("GLFW_KEY_F4")),
               msaaLevel |-> msaa]
      entry == Ev(Ctx(gl, << >>, px), "keyCallback", key, action, fov)
  IN /\ shouldClose' = (shouldClose \/ press("GLFW_KEY_ESCAPE"))
     /\ renderMode' = mode
     /\ \E impl \in Behaviours(driver, mainWindow) :
          LET c1 == IF press("GLFW_KEY_F1")
                    THEN createFramebuffer(entry, Names, msaa, impl) ELSE entry
              c2 == IF press("GLFW_KEY_F3")
                    THEN glfwSwapInterval(c1, IF mode.vsync THEN 1 ELSE 0) ELSE c1
          IN Apply(c2) /\ console' = console \o Printed(c2.log)
     /\ animate' = (animate # press("GLFW_KEY_F5"))
     /\ carmackReverse' = (carmackReverse # press("GLFW_KEY_F6"))
     /\ fov' = ZoomedFov(fov, key, action)
     /\ UNCHANGED << scene, mainLoop, iterations, driver, mainWindow, inst, pc, i, frame >>

\* a press of key delivered between two frames
KeyPress(key) ==
  pc = "idle" /\ keys < MaxKeys /\ keys' = keys + 1 /\ keyCallback(key, "GLFW_PRESS")
KeyF1 == KeyPress("GLFW_KEY_F1")
KeyF2 == KeyPress("GLFW_KEY_F2")
KeyF3 == KeyPress("GLFW_KEY_F3")
KeyF4 == KeyPress("GLFW_KEY_F4")
KeyF5 == KeyPress("GLFW_KEY_F5")
KeyF6 == KeyPress("GLFW_KEY_F6")

\* resizeCallback(window, width, height): keep the new size, set the
\* viewport, re-create the framebuffers at the size
resizeCallback ==
  /\ \E size \in WindowSizes(driver) :
       /\ mainWindow' = size
       /\ \E impl \in Behaviours(driver, size) :
            LET created == createFramebuffer(glViewport(Ctx(gl, << >>, px), size, driver.limit),
                                             Names,
                                             renderMode.msaaLevel, impl)
            IN Apply(created) /\ console' = console \o Printed(created.log)
  /\ UNCHANGED << scene, app, renderMode, carmackReverse, animate, fov, inst, pc, i, frame >>

\* One frame of mainLoop without input events
NextDraw ==
  \/ BeginFrame
  \/ Draw_UpdateTransformBlock
  \/ UpdateInstanceData_Loop
  \/ UpdateInstanceData_Upload
  \/ Draw_GlobalState
  \/ Draw_Clear
  \/ Classic_DepthPrePass
  \/ Classic_DepthMaskOff
  \/ Classic_StencilClear
  \/ Classic_ShadowPass
  \/ Classic_DirectLight
  \/ Classic_AmbientLight
  \/ Spot_ShadowMap
  \/ Spot_PointLight
  \/ Spot_SpotLight
  \/ Draw_Restore
  \/ RenderScene_Present

Next == NextDraw \/ KeyF1 \/ KeyF2 \/ KeyF3 \/ KeyF4 \/ KeyF6

Spec == Init /\ [][Next]_vars
SpecPixels == InitPixels /\ [][Next]_vars


\* The classic build drawing frames, no input events
NextClassic ==
  \/ BeginFrame
  \/ Draw_UpdateTransformBlock
  \/ UpdateInstanceData_Loop
  \/ UpdateInstanceData_Upload
  \/ Draw_GlobalState
  \/ Draw_Clear
  \/ Classic_DepthPrePass
  \/ Classic_DepthMaskOff
  \/ Classic_StencilClear
  \/ Classic_ShadowPass
  \/ Classic_DirectLight
  \/ Classic_AmbientLight
  \/ Draw_Restore
  \/ RenderScene_Present

\* One cube, one light, every sample pixel and either stencil convention,
\* whatever the new HDR storage holds
StencilDriver == [ClearedDriver EXCEPT !.storage = FreshStorage(FreshContents, {ZeroFill})]
InitStencil ==
  \E reverse \in BOOLEAN, gm \in AllGeoms(1), impl \in Behaviours(StencilDriver, DefaultSize) :
    MainInitWith("classic", 1, 1, gm, reverse, EndCubes(1, FALSE), EndLights(1, FALSE),
                 StencilDriver, impl)

SpecStencil == InitStencil /\ [][NextClassic]_vars

\* Scenes with few objects and with object counts around MAX_INSTANCES, the
\* random cubes at the lower end of their ranges
InitInstances ==
  \E pipe \in Pipelines, nc \in (1..MaxCubes) \cup BigCounts :
    SceneInitAt(pipe, nc, 1, PlainGeom(1), TRUE, FALSE)

\* Frames, and the death of the process after an overrun
NextInstances == NextDraw \/ Draw_Killed
SpecInstances == InitInstances /\ [][NextInstances]_vars

\* ------------------------------------------------------------------------
\* Reading the command log
\* ------------------------------------------------------------------------

IsDraw(e) == e.op \in {"glDrawElements", "glDrawElementsInstanced", "glDrawArrays"}
IsClear(e, bits) == e.op = "glClear" /\ e.arg = ClearName(bits)
IsCap(e, op, cap) == e.op = op /\ e.arg = cap

\* s without repetitions of an element next to itself
Dedupe(s) ==
  LET first == SelectSeq([k \in 1..Len(s) |-> k], LAMBDA k : k = 1 \/ s[k] # s[k - 1])
  IN [j \in 1..Len(first) |-> s[first[j]]]

IsPrefix(s, r) == Len(s) <= Len(r) /\ \A k \in 1..Len(s) : s[k] = r[k]

\* Scene::Draw is running or has just returned
InDraw == pc \notin {"idle", "crashed"}
DrawReturned == pc = "Present"
\* the running frame rasterises the mesh src at the sample pixel: always
\* when it fills the triangles, in wireframe where an edge crosses the pixel
Rasterised(src) == ~renderMode.wireframe \/ src \in geom.edges
\* the running frame rasterises a surface (backdrop or cube) at the pixel
SurfaceDrawn ==
  Rasterised("background") \/ (numCubes >= 1 /\ geom.cubeZ # 0 /\ Rasterised("cube"))


\* ------------------------------------------------------------------------
\* C1: order of the steps of the classic Draw
\* ------------------------------------------------------------------------

\* The step of Draw a logged command belongs to, read off the command
StepOf(e) ==
  CASE e.loop = "lights" -> "lights"
    [] e.loop # "" -> "other"
    [] e.pass = DepthPass -> "prepass"
    [] e.pass # NoPass -> "other"
    [] e.op \in {"glBindBuffer", "glBufferSubData"} -> "transform"
    [] e.op \in {"glBindBufferBase", "glMapBuffer", "memcpy", "glUnmapBuffer"} -> "instance"
    [] e.op \in {"glEnable", "glDisable"} /\
       e.arg \in {"GL_MULTISAMPLE", "GL_CULL_FACE", "GL_DEPTH_TEST", "GL_DEPTH_CLAMP"} -> "state"
    [] e.op \in {"glCullFace", "glPolygonMode", "glDepthFunc"} -> "state"
    [] e.op = "glDepthMask" /\ e.arg = "GL_TRUE" -> "state"
    [] IsClear(e, {"COLOR", "DEPTH"}) -> "clear"
    [] e.op = "glColorMask" /\ e.arg = "false" -> "prepass"
    [] e.op = "glDepthMask" /\ e.arg = "GL_FALSE" -> "depthmask"
    [] e.op = "glColorMask" /\ e.arg = "true" -> "restore"
    [] e.op = "glBindFramebuffer" -> ""
    [] OTHER -> "other"

ClassicOrder(nl) ==
  << "transform", "instance", "state", "clear", "prepass", "depthmask" >>
  \o (IF nl > 0 THEN << "lights" >> ELSE << >>) \o << "restore" >>

\* the steps of the commands of l, in order, commands of no step left out
StepNames(l) ==
  LET named == SelectSeq(l, LAMBDA e : StepOf(e) # "")
  IN [k \in 1..Len(named) |-> StepOf(named[k])]

\* The global state the frame's clear and pre-pass run under
GlobalStateSet(g, mode) ==
  /\ g.caps["GL_MULTISAMPLE"] = (mode.msaaLevel > 1)
  /\ g.caps["GL_CULL_FACE"] /\ g.cullMode = "GL_BACK"
  /\ g.polygonMode = (IF mode.wireframe THEN "GL_LINE" ELSE "GL_FILL")
  /\ g.caps["GL_DEPTH_TEST"] /\ g.depthFunc = "GL_LEQUAL"
  /\ g.caps["GL_DEPTH_CLAMP"]
  /\ g.depthMask

\* C1: in the classic pipeline the steps of Draw are issued in the fixed
\* order transform block, instance data, global state, clear, depth pre-pass
\* (colour write off), depth write off, light loop, colour mask restore: at
\* every moment of Draw the steps issued so far are a prefix of that order,
\* on return all of them were issued, the clear and every pre-pass draw ran
\* under the global state, and the pre-pass draws with colour write disabled.
C1_StepOrder ==
  (pipeline = "classic" /\ InDraw) =>
    /\ IsPrefix(Dedupe(StepNames(log)), ClassicOrder(numLights))
    /\ DrawReturned => Dedupe(StepNames(log)) = ClassicOrder(numLights)
    /\ \A k \in 1..Len(log) :
         /\ IsClear(log[k], {"COLOR", "DEPTH"}) => GlobalStateSet(log[k].gl, renderMode)
         /\ (IsDraw(log[k]) /\ log[k].pass = DepthPass) =>
              GlobalStateSet(log[k].gl, renderMode) /\ log[k].gl.colorMask = AllFalse

\* A classic frame with the most lights, drawn in wireframe, has returned
C1_Witness ==
  /\ pipeline = "classic" /\ DrawReturned
  /\ numLights = MaxLights /\ numCubes = MaxCubes
  /\ renderMode.wireframe


\* ------------------------------------------------------------------------
\* C2: colour write mask on return from Draw
\* ------------------------------------------------------------------------

\* C2: when Draw returns, in either pipeline and for every light count, all
\* four channels of the colour write mask are enabled.
C2_ColorMaskRestored ==
  DrawReturned => gl.colorMask = AllTrue

\* A classic frame without lights has returned: the last pass of the frame,
\* the depth pre-pass, ran with the colour write disabled
C2_Witness ==
  /\ DrawReturned /\ pipeline = "classic" /\ numLights = 0
  /\ \E k \in 1..Len(log) : IsDraw(log[k]) /\ log[k].gl.colorMask = AllFalse
  /\ \A k \in 1..Len(log) : IsDraw(log[k]) => log[k].gl.colorMask = AllFalse

\* ------------------------------------------------------------------------
\* C3: a classic frame with zero lights
\* ------------------------------------------------------------------------

LightPasses == {ShadowVolume, DirectLight, AmbientLight}

\* C3: a classic frame with zero lights draws the backdrop and the instanced
\* objects in the depth pre-pass and issues no stencil clear, no stencil-test
\* enable, no shadow-volume draw and no light-pass draw.
C3_ZeroLights ==
  (pipeline = "classic" /\ numLights = 0 /\ InDraw) =>
    /\ DrawReturned =>
         /\ \E k \in 1..Len(log) :
              log[k].op = "glDrawElements" /\ log[k].pass = DepthPass /\ log[k].gl.vao = "quad"
         /\ \E k \in 1..Len(log) :
              /\ log[k].op = "glDrawElementsInstanced" /\ log[k].pass = DepthPass
              /\ log[k].n = numCubes /\ log[k].gl.vao = "cube"
    /\ \A k \in 1..Len(log) :
         /\ ~IsClear(log[k], {"STENCIL"})
         /\ ~IsCap(log[k], "glEnable", "GL_STENCIL_TEST")
         /\ IsDraw(log[k]) => log[k].pass \notin LightPasses

\* A classic frame with zero lights and some cubes has returned
C3_Witness ==
  /\ pipeline = "classic" /\ numLights = 0 /\ numCubes > 0 /\ DrawReturned
  /\ px[FB_HDR].depth < DepthFar

\* ------------------------------------------------------------------------
\* C4: sub-steps of one light of the classic pipeline
\* ------------------------------------------------------------------------

\* The sub-step of the light loop a logged command shows
LightStepOf(e) ==
  CASE IsClear(e, {"STENCIL"}) -> "stencil clear"
    [] IsCap(e, "glEnable", "GL_STENCIL_TEST") -> "stencil enable"
    [] IsCap(e, "glDisable", "GL_STENCIL_TEST") -> "stencil disable"
    [] IsDraw(e) /\ e.pass = ShadowVolume ->
         IF e.gl.colorMask = AllFalse THEN "shadow volume" ELSE "shadow volume in colour"
    [] IsDraw(e) /\ e.pass = DirectLight ->
         IF e.gl.colorMask = AllTrue /\ e.gl.caps["GL_STENCIL_TEST"]
         THEN "direct light" ELSE "direct light ungated"
    [] IsDraw(e) /\ e.pass = AmbientLight -> "ambient"
    [] IsDraw(e) -> "other draw"
    [] OTHER -> ""

LightOrder ==
  << "stencil clear", "stencil enable", "shadow volume", "direct light",
     "stencil disable", "ambient" >>

\* the sub-steps of the commands of l, in order, other commands left out
LightStepNames(l) ==
  LET named == SelectSeq(l, LAMBDA e : LightStepOf(e) # "")
  IN [k \in 1..Len(named) |-> LightStepOf(named[k])]

\* the commands of l issued for light k of the light loop
OfLight(l, k) == SelectSeq(l, LAMBDA e : e.loop = "lights" /\ e.light = k)

\* light k's shadow volume leaves the visible surface of the sample pixel lit
LitBy(k) == numCubes < 1 \/ geom.vol[k] = NoVolume

\* the direct contributions of light k accumulated in the HDR pixel
DirectFrom(k) ==
  SelectSeq(px[FB_HDR].color, LAMBDA term : term.pass = DirectLight /\ term.light = k)

\* C4: for every light of a classic frame the sub-steps are stencil clear,
\* stencil enable, shadow volume (colour write off), direct light (colour write
\* on, stencil test on), stencil disable, ambient, in this order; the commands
\* of light k all come before those of light k+1; and the stencil values of
\* one light never gate another: a pixel the frame rasterises a surface at
\* holds light k's direct contribution if and only if light k's own volume
\* leaves it lit.
C4_LightSubSteps ==
  (pipeline = "classic" /\ InDraw) =>
    /\ \A k \in 0..(numLights - 1) :
         /\ IsPrefix(Dedupe(LightStepNames(OfLight(log, k))), LightOrder)
         /\ (DrawReturned \/ (pc \in {"StencilClear", "ShadowPass", "DirectLight", "AmbientLight"}
                              /\ k < i))
              => /\ Dedupe(LightStepNames(OfLight(log, k))) = LightOrder
                 /\ (DirectFrom(k) # << >>) <=>
                      (SurfaceDrawn /\ (LitBy(k) \/ ~Rasterised("volume")))
    /\ LET inLoop == SelectSeq(log, LAMBDA e : e.loop = "lights")
       IN \A a \in 1..(Len(inLoop) - 1) : inLoop[a].light <= inLoop[a + 1].light

\* Two lights were drawn; the first one's volume shadows the pixel, the
\* second one's does not and contributed its direct light
C4_Witness ==
  /\ pipeline = "classic" /\ DrawReturned /\ numLights = 2 /\ numCubes > 0
  /\ ~LitBy(0) /\ LitBy(1)
  /\ DirectFrom(0) = << >> /\ DirectFrom(1) # << >>

\* ------------------------------------------------------------------------
\* C5: depth write after the pre-pass
\* ------------------------------------------------------------------------

\* the depth the pre-pass primes the sample pixel with: that of the nearest
\* surface the frame rasterises there, or none
PrimedDepth ==
  IF numCubes >= 1 /\ geom.cubeZ # 0 /\ Rasterised("cube") /\
     (geom.cubeZ <= geom.bgZ \/ ~Rasterised("background"))
  THEN geom.cubeZ
  ELSE IF Rasterised("background") THEN geom.bgZ ELSE DepthFar

\* C5: in the classic pipeline every draw issued from the light loop (shadow
\* volume, direct light, ambient, light marker) has depth write disabled, and
\* from the end of the pre-pass until Draw returns the depth buffer keeps the
\* value the pre-pass wrote.
C5_DepthWriteOff ==
  (pipeline = "classic" /\ InDraw) =>
    /\ \A k \in 1..Len(log) :
         (IsDraw(log[k]) /\ (log[k].loop = "lights" \/ log[k].pass \in LightPasses))
           => ~log[k].gl.depthMask
    /\ pc \in {"DepthMaskOff", "StencilClear", "ShadowPass", "DirectLight", "AmbientLight",
               "Restore", "Present"}
         => px[FB_HDR].depth = PrimedDepth
    /\ pc \in {"StencilClear", "ShadowPass", "DirectLight", "AmbientLight", "Restore", "Present"}
         => ~gl.depthMask

\* A frame whose light marker and shadow volume were drawn has returned
C5_Witness ==
  /\ pipeline = "classic" /\ DrawReturned /\ numLights = MaxLights /\ numCubes > 0
  /\ \E k \in 1..Len(log) : log[k].op = "glDrawArrays" /\ log[k].pass = AmbientLight
  /\ \E k \in 1..Len(log) :
       log[k].op = "glDrawElementsInstanced" /\ log[k].pass = ShadowVolume /\ ~LitBy(log[k].light)


\* ------------------------------------------------------------------------
\* C6: the two stencil conventions classify alike
\* ------------------------------------------------------------------------

RECURSIVE Balance(_, _, _)
\* Walking vol from depth z to the far end with d volumes entered so far:
\* TRUE iff no volume is left that was not entered and all are left at the end
Balance(vol, z, d) ==
  IF z > MaxDepth THEN d = 0
  ELSE IF vol[z] = "front" THEN Balance(vol, z + 1, d + 1)
  ELSE IF vol[z] = "back" THEN d > 0 /\ Balance(vol, z + 1, d - 1)
  ELSE Balance(vol, z + 1, d)

\* vol is the crossing pattern of closed volumes seen from outside
ClosedOutside(vol) == Balance(vol, 1, 0)

\* the HDR pixel after the shadow pass of the current light run with the
\* given convention on the current buffers
StencilAfter(reverse) ==
  shadowPass(glColorMask(WithLight(Cur, "lights", i), FALSE, FALSE, FALSE, FALSE),
             geom, reverse, numCubes).px[FB_HDR].stencil

\* C6: when the volume seen through the pixel is closed and does not contain
\* the camera, the shadow pass leaves the stencil value zero under the
\* selected convention exactly when the other convention, run over the same
\* primed depth buffer, leaves it zero (8-bit wrapping arithmetic).
C6_ConventionsAgree ==
  [][ (pc = "ShadowPass" /\ pc' = "DirectLight" /\ ClosedOutside(geom.vol[i])) =>
        /\ px'[FB_HDR].stencil = StencilAfter(carmackReverse)
        /\ (StencilAfter(TRUE) = 0) <=> (StencilAfter(FALSE) = 0) ]_vars

\* The shadow pass ran in depth-pass mode over a closed volume around the
\* visible surface, drawn far side first, and marked the pixel as shadowed
C6_Witness ==
  /\ pc = "DirectLight" /\ ClosedOutside(geom.vol[0]) /\ geom.vol[0] # NoVolume
  /\ ~carmackReverse /\ ~geom.nearFirst
  /\ px[FB_HDR].stencil # 0

\* ------------------------------------------------------------------------
\* C7, C8: stencil operations of the shadow pass
\* ------------------------------------------------------------------------

\* the shadow-volume draws logged in the current frame
ShadowDraws == { k \in 1..Len(log) : IsDraw(log[k]) /\ log[k].pass = ShadowVolume }

\* C7: with carmackReverse set, every shadow-volume draw runs with back faces
\* incrementing (wrapping) on depth fail, front faces decrementing (wrapping)
\* on depth fail, and both keeping the value on stencil fail and depth pass.
C7_DepthFailOps ==
  (InDraw /\ carmackReverse) =>
    \A k \in ShadowDraws :
      /\ log[k].gl.stencilOp["back"] =
           [sfail |-> "GL_KEEP", dpfail |-> "GL_INCR_WRAP", dppass |-> "GL_KEEP"]
      /\ log[k].gl.stencilOp["front"] =
           [sfail |-> "GL_KEEP", dpfail |-> "GL_DECR_WRAP", dppass |-> "GL_KEEP"]

\* A shadow volume was drawn in depth-fail mode
C7_Witness ==
  /\ InDraw /\ carmackReverse /\ ShadowDraws # {}
  /\ \E k \in ShadowDraws : log[k].op = "glDrawElementsInstanced" /\ log[k].n > 0

\* C8 as stated: with carmackReverse clear, back faces increment on depth
\* pass and front faces decrement on depth pass, keep otherwise.
C8_AsStated ==
  (InDraw /\ ~carmackReverse) =>
    \A k \in ShadowDraws :
      /\ log[k].gl.stencilOp["back"] =
           [sfail |-> "GL_KEEP", dpfail |-> "GL_KEEP", dppass |-> "GL_INCR_WRAP"]
      /\ log[k].gl.stencilOp["front"] =
           [sfail |-> "GL_KEEP", dpfail |-> "GL_KEEP", dppass |-> "GL_DECR_WRAP"]

\* C8 (amended): with carmackReverse clear, every shadow-volume draw runs with
\* back faces decrementing (wrapping) on depth pass, front faces incrementing
\* (wrapping) on depth pass, and both keeping the value on stencil fail and
\* depth fail.
C8_DepthPassOps ==
  (InDraw /\ ~carmackReverse) =>
    \A k \in ShadowDraws :
      /\ log[k].gl.stencilOp["back"] =
           [sfail |-> "GL_KEEP", dpfail |-> "GL_KEEP", dppass |-> "GL_DECR_WRAP"]
      /\ log[k].gl.stencilOp["front"] =
           [sfail |-> "GL_KEEP", dpfail |-> "GL_KEEP", dppass |-> "GL_INCR_WRAP"]

\* A shadow volume was drawn in depth-pass mode
C8_Witness ==
  /\ InDraw /\ ~carmackReverse /\ ShadowDraws # {}
  /\ \E k \in ShadowDraws : log[k].op = "glDrawElementsInstanced" /\ log[k].n > 0

\* ------------------------------------------------------------------------
\* C9, C10: extent of UpdateInstanceData
\* ------------------------------------------------------------------------

\* the memcpy sizes logged in the current frame
CopiedBytes == { log[k].n : k \in { j \in 1..Len(log) : log[j].op = "memcpy" } }

\* C9: for 1 <= numCubes <= MAX_INSTANCES an UpdateInstanceData call never
\* touches a staging entry or a position with index >= numCubes, and once it
\* has returned it has written exactly the staging entries 0..numCubes-1, read
\* exactly the positions 0..numCubes-1 and copied exactly numCubes entries
\* (numCubes * sizeof(InstanceData) bytes), within the buffer's size.
C9_InstanceExtent ==
  (1 <= numCubes /\ numCubes <= MAX_INSTANCES) =>
    /\ pc # "crashed" /\ ~inst.overrun
    /\ inst.written \subseteq 0..(numCubes - 1)
    /\ inst.read \subseteq 0..(numCubes - 1)
    /\ (inst.calls >= 1 /\ pc # "UpdateInstanceData") =>
         /\ inst.written = 0..(numCubes - 1)
         /\ inst.read = 0..(numCubes - 1)
         /\ inst.copied = numCubes
         /\ inst.bytes = numCubes * SizeofInstanceData
         /\ inst.bytes <= InstanceBufferSize
    /\ InDraw => CopiedBytes \subseteq {numCubes * SizeofInstanceData}

\* UpdateInstanceData has returned for a scene of exactly MAX_INSTANCES objects
C9_Witness ==
  /\ numCubes = MAX_INSTANCES /\ pc = "GlobalState" /\ inst.calls >= 1
  /\ inst.copied = MAX_INSTANCES /\ CopiedBytes # {}

\* C10 as stated: with numCubes > MAX_INSTANCES no staging entry with index
\* >= MAX_INSTANCES is written and no more than MAX_INSTANCES entries are
\* copied.
C10_Rejected ==
  numCubes > MAX_INSTANCES =>
    /\ \A k \in inst.written : k < MAX_INSTANCES
    /\ inst.copied <= MAX_INSTANCES

\* UpdateInstanceData returned after copying more than MAX_INSTANCES entries
C10_Witness ==
  /\ numCubes > MAX_INSTANCES /\ pc = "GlobalState"
  /\ MAX_INSTANCES \in inst.written /\ inst.copied > MAX_INSTANCES


\* ------------------------------------------------------------------------
\* C11, C12: the indexed uniform buffer bindings
\* ------------------------------------------------------------------------

\* the commands issued while a buffer stays bound to index 1: the binding
\* itself, the mapping and copy, the instanced draw and its set-up
InstancedOps ==
  { "glBindBufferBase", "glMapBuffer", "memcpy", "glUnmapBuffer",
    "glBindTexture", "glBindVertexArray", "glDrawElementsInstanced" }

\* C11: between the steps of a frame (on return from UpdateInstanceData, from
\* the passes built on DrawObjects and from the shadow-map pass) index 1 is
\* unbound; every instanced draw and the mapping, copy and unmapping run with
\* the instancing buffer bound to index 1; and every command that runs with
\* index 1 bound is one of those helpers' own.
C11_IndexOneScoped ==
  /\ gl.uboBase[2] = NoBuffer
  /\ \A k \in 1..Len(log) :
       /\ log[k].op \in {"glDrawElementsInstanced", "glMapBuffer", "memcpy", "glUnmapBuffer"}
            => log[k].gl.uboBase[2] = InstancingBuffer
       /\ log[k].gl.uboBase[2] # NoBuffer =>
            /\ log[k].gl.uboBase[2] = InstancingBuffer
            /\ log[k].op \in InstancedOps
       /\ (k > 1 /\ log[k].op \in {"glUseProgram", "glDrawElements", "glDrawArrays", "glClear"})
            => log[k - 1].gl.uboBase[2] = NoBuffer

\* A spotlight frame with cubes has returned: its shadow-map pass and its
\* light pass both drew instanced with index 1 bound
C11_Witness ==
  /\ pipeline = "spotlight" /\ DrawReturned /\ numCubes > 0 /\ numLights > 0
  /\ \E k \in 1..Len(log) :
       /\ log[k].op = "glDrawElementsInstanced" /\ log[k].loop = "shadowMaps"
       /\ log[k].gl.uboBase[2] = InstancingBuffer
  /\ \E k \in 1..Len(log) :
       /\ log[k].op = "glDrawElementsInstanced" /\ log[k].loop = "pointLights"
       /\ log[k].gl.uboBase[2] = InstancingBuffer

\* C12: index 0 of the uniform buffer bindings holds the transform block in
\* every reachable state and under every command of a frame; no command binds
\* index 0.
C12_IndexZeroFixed ==
  /\ gl.uboBase[1] = TransformBlockUBO
  /\ \A k \in 1..Len(log) :
       /\ log[k].gl.uboBase[1] = TransformBlockUBO
       /\ ~(log[k].op = "glBindBufferBase" /\ log[k].arg = "0")

\* The second frame has returned after the transform block was rewritten
C12_Witness ==
  /\ DrawReturned /\ frame >= 1 /\ numLights > 0
  /\ \E k \in 1..Len(log) : log[k].op = "glBufferSubData"
  /\ \E k \in 1..Len(log) : log[k].op = "glBindBufferBase" /\ log[k].arg = "1"


\* ------------------------------------------------------------------------
\* C13: byte ranges of the transform block
\* ------------------------------------------------------------------------

\* std140 size of a matrix stored as the given number of vec4 columns
Std140Columns(columns) == columns * 16

\* Declared size of the TransformBlock uniform block: the view matrix stored
\* as 3 columns of 4 rows, then the 4x4 projection matrix
TransformBlockSize == Std140Columns(3) + Std140Columns(4)

\* the bytes a logged glBufferSubData writes
BytesOf(e) == e.n .. (e.n + e.size - 1)

\* the glBufferSubData commands of the current frame that write the member
WritesOf(member) ==
  { k \in 1..Len(log) : log[k].op = "glBufferSubData" /\ log[k].arg = member }

\* C13: once UpdateTransformBlock has run in a frame, the view matrix was
\* written to bytes [0, 48) and the projection matrix to bytes [48, 112) of
\* the transform block: the ranges are disjoint and adjacent, together they are
\* exactly the bytes of the declared block, and nothing else was written.
C13_TransformBlockRanges ==
  (InDraw /\ pc # "Draw") =>
    /\ \A k \in 1..Len(log) : log[k].op = "glBufferSubData" =>
         /\ log[k].gl.ubo = TransformBlockUBO
         /\ log[k].arg \in {"worldToView", "projection"}
         /\ BytesOf(log[k]) \subseteq 0..(TransformBlockSize - 1)
    /\ Cardinality(WritesOf("worldToView")) = 1
    /\ Cardinality(WritesOf("projection")) = 1
    /\ \A v \in WritesOf("worldToView"), q \in WritesOf("projection") :
         /\ BytesOf(log[v]) = 0..47
         /\ BytesOf(log[q]) = 48..111
         /\ BytesOf(log[v]) \cap BytesOf(log[q]) = {}
         /\ log[v].n + log[v].size = log[q].n
         /\ BytesOf(log[v]) \cup BytesOf(log[q]) = 0..(TransformBlockSize - 1)

\* UpdateTransformBlock has just returned in the first frame
C13_Witness ==
  /\ pc = "UpdateInstanceData" /\ frame = 0 /\ i = 0
  /\ WritesOf("worldToView") # {} /\ WritesOf("projection") # {}


\* ------------------------------------------------------------------------
\* C14: one write of each shared buffer per frame
\* ------------------------------------------------------------------------

\* the commands of the current frame that write buffer memory
BufferWrites == { k \in 1..Len(log) : log[k].op \in {"glBufferSubData", "glMapBuffer", "memcpy"} }

\* the draw commands of the current frame
DrawCalls == { k \in 1..Len(log) : IsDraw(log[k]) }

\* the commands of the current frame with the given name
CallsOf(op) == { k \in 1..Len(log) : log[k].op = op }

\* C14: in every Draw call, of either pipeline, each member of the transform
\* block is written once and the instancing buffer is mapped and filled once,
\* outside every pass and before the first draw call; no write follows a draw.
C14_SingleWriterPerFrame ==
  InDraw =>
    /\ \A w \in BufferWrites :
         /\ log[w].pass = NoPass /\ log[w].loop = ""
         /\ \A d \in DrawCalls : w < d
    /\ Cardinality(WritesOf("worldToView")) <= 1
    /\ Cardinality(WritesOf("projection")) <= 1
    /\ Cardinality(CallsOf("glMapBuffer")) <= 1
    /\ Cardinality(CallsOf("memcpy")) <= 1
    /\ pc \notin {"Draw", "UpdateInstanceData"} =>
         /\ Cardinality(CallsOf("glBufferSubData")) = 2
         /\ Cardinality(WritesOf("worldToView")) = 1
         /\ Cardinality(WritesOf("projection")) = 1
         /\ Cardinality(CallsOf("glMapBuffer")) = 1
         /\ Cardinality(CallsOf("memcpy")) = 1
    /\ DrawReturned => DrawCalls # {}

\* A spotlight frame with the most lights has returned: many draws, all
\* after the two buffer updates
C14_Witness ==
  /\ DrawReturned /\ pipeline = "spotlight" /\ numLights = MaxLights /\ numCubes > 0
  /\ Cardinality(DrawCalls) > 4
  /\ Cardinality(CallsOf("memcpy")) = 1


\* ------------------------------------------------------------------------
\* C15: the RenderPass flags and the light-pass-only update
\* ------------------------------------------------------------------------

\* Every combination of the four single-pass flags
PassCombos == 0..(DepthPass + ShadowVolume + DirectLight + AmbientLight)

\* One call of Scene::DrawBackground with any flag combination
Call_DrawBackground ==
  /\ pc \in {"idle", "called"}
  /\ \E rp \in PassCombos :
       Apply(IF pipeline = "classic"
             THEN DrawBackground(Ctx(gl, << >>, px), geom, "Default", rp)
             ELSE DrawBackground_Spot(Ctx(gl, << >>, px), geom, "Default", rp))
  /\ pc' = "called"
  /\ UNCHANGED << scene, app, console, settings, inst, i, frame, keys >>

\* One call of Scene::DrawObjects with any flag combination
Call_DrawObjects ==
  /\ pc \in {"idle", "called"}
  /\ \E rp \in PassCombos :
       Apply(IF pipeline = "classic"
             THEN DrawObjects(Ctx(gl, << >>, px), geom, "Instancing", rp, numCubes)
             ELSE DrawObjects_Spot(Ctx(gl, << >>, px), geom, "Instancing", rp, numCubes))
  /\ pc' = "called"
  /\ UNCHANGED << scene, app, console, settings, inst, i, frame, keys >>

\* One call of Scene::DrawObjectsSpotlightsShadow with any flag combination
Call_DrawObjectsSpotlightsShadow ==
  /\ pc \in {"idle", "called"}
  /\ pipeline = "spotlight"
  /\ \E rp \in PassCombos :
       Apply(DrawObjectsSpotlightsShadow(Ctx(gl, << >>, px), geom,
                                         "InstancingSpotlightShadow", rp, numCubes))
  /\ pc' = "called"
  /\ UNCHANGED << scene, app, console, settings, inst, i, frame, keys >>

NextPasses == Call_DrawBackground \/ Call_DrawObjects \/ Call_DrawObjectsSpotlightsShadow

\* A scene of one cube and one light, in either build
InitPasses == \E pipe \in Pipelines : SceneInit(pipe, 1, 1, PlainGeom(1), TRUE)

\* The draw helpers called with every flag combination, in any order
SpecPasses == InitPasses /\ [][NextPasses]_vars

\* the flag combination rp contains the single-pass flag f (a power of two)
Contains(rp, f) == (rp \div f) % 2 = 1

\* the uniforms the logged call has set
UniformsSet == { log[k].arg : k \in { j \in 1..Len(log) : log[j].op = "glUniform" } }

\* C15: LightPass is DirectLight | AmbientLight and shares no bit with
\* DepthPass or ShadowVolume; and a draw helper called with any combination
\* of the four flags has UpdateProgramData set the view position and the light
\* colour exactly when the combination contains DirectLight or AmbientLight.
C15_LightPassOnly ==
  /\ LightPass = DirectLight + AmbientLight
  /\ \A rp \in PassCombos :
       HasPass(rp, LightPass) <=> (Contains(rp, DirectLight) \/ Contains(rp, AmbientLight))
  /\ ~HasPass(DepthPass, LightPass) /\ ~HasPass(ShadowVolume, LightPass)
  /\ pc = "called" =>
       LET rp == log[1].pass
           light == Contains(rp, DirectLight) \/ Contains(rp, AmbientLight)
       IN /\ ("viewPosWS" \in UniformsSet) <=> light
          /\ ("lightColor" \in UniformsSet) <=> light

\* A helper was called with DepthPass | ShadowVolume: the light position was
\* set, the view position and the light colour were not
C15_Witness ==
  /\ pc = "called" /\ pipeline = "classic"
  /\ log[1].pass = DepthPass + ShadowVolume
  /\ "lightPosWS" \in UniformsSet
  /\ "viewPosWS" \notin UniformsSet /\ "lightColor" \notin UniformsSet


\* ------------------------------------------------------------------------
\* C16, C17, C18: the contents of the scene and the animation of the lights
\* ------------------------------------------------------------------------

\* Base of the first light's and of the spot light's curve in Scene::Update
HeroBase == << -3 * Milli, 2 * Milli, 0 >>
SpotBase == << -((3 * Milli) \div 2), Milli \div 5, Milli \div 2 >>

\* Scene::Update, position of the first light and of the spot light: base
\* plus curve, not scaled
AnchoredPosition(base, lt, time) == VecAdd(base, lissajous(lt.movement, time))

\* PointLightPosition adding the curve to the light's previous position
PointLightPosition_Drift(lt, time) ==
  VecAdd(lt.position, VecMul(lissajous(lt.movement, time), scale))

\* Scene::Update, position of the lights from index 1 on
PointLightPosition(lt, time) ==
  VecAdd(offset, VecMul(lissajous(lt.movement, time), scale))

\* UpdateLightIndices with the loop running to _numLights inclusive
UpdateLightIndices_Inclusive(nl) == {0} \cup (1..nl)

\* Scene::Update, the indices it uses into _lights: 0 unconditionally, then
\* for (i = 1; i < _numLights; ++i)
UpdateLightIndices(nl) == {0} \cup (1..(nl - 1))

\* Scene::Update of the spotlight build, the indices it uses into _spotLights
UpdateSpotLightIndices(pipe) == IF pipe = "spotlight" THEN {0} ELSE {}

\* Scene::Update on the light list: _lights[0], then the loop from index 1
\* to _numLights
UpdateLights(lts, nl, time) ==
  [k \in 1..Len(lts) |->
     IF k = 1 THEN [lts[k] EXCEPT !.position = AnchoredPosition(HeroBase, lts[k], time)]
     ELSE IF (k - 1) \in UpdateLightIndices(nl)
          THEN [lts[k] EXCEPT !.position = PointLightPosition(lts[k], time)]
     ELSE lts[k]]

\* Scene::Update of the spotlight build on _spotLights[0]
UpdateSpotLights(sls, time) ==
  [k \in 1..Len(sls) |->
     IF k = 1 THEN [sls[k] EXCEPT !.position = AnchoredPosition(SpotBase, sls[k], time)]
     ELSE sls[k]]

\* Frame times dt of mainLoop, in units of pi/8 seconds
FrameTimes == {1, 3}

\* Update advancing the timer before it evaluates the positions
Update_AfterAdvance ==
  /\ pc = "idle" /\ animate /\ t < MaxTime
  /\ \E dt \in FrameTimes :
       /\ lights' = UpdateLights(lights, numLights, t + dt)
       /\ spotLights' = UpdateSpotLights(spotLights, t + dt)
       /\ t' = t + dt
  /\ UNCHANGED << pipeline, numCubes, numLights, numSpotLights, cubePositions, geom,
                  app, console, settings, gl, px, log, inst, pc, i, frame, keys >>

\* mainLoop: if (animate) scene.Update(dt)
Update ==
  /\ pc = "idle" /\ animate /\ t < MaxTime
  /\ \E dt \in FrameTimes :
       /\ lights' = UpdateLights(lights, numLights, t)
       /\ spotLights' = UpdateSpotLights(spotLights, t)
       /\ t' = t + dt
  /\ UNCHANGED << pipeline, numCubes, numLights, numSpotLights, cubePositions, geom,
                  app, console, settings, gl, px, log, inst, pc, i, frame, keys >>

NextScene == KeyF5 \/ Update

\* The scenes whose contents are followed: main's scene and the small ones,
\* cubes and lights varied one at a time
SceneSizes ==
  { << nc, NumLightsMain >> : nc \in (0..MaxCubes) \cup {NumCubesMain} }
    \cup { << 1, nl >> : nl \in 0..MaxLights }

\* Scene::Init for every outcome of its getRandom calls
InitScene ==
  \E pipe \in Pipelines, sz \in SceneSizes :
    SceneInit(pipe, sz[1], sz[2], PlainGeom(sz[2]), TRUE)

SpecScene == InitScene /\ [][NextScene]_vars

Abs(x) == IF x < 0 THEN -x ELSE x
\* every axis of pos is within bound of the same axis of base
Within(pos, base, bound) == \A a \in 1..3 : Abs(pos[a] - base[a]) <= bound[a]
UnitBox == << Milli, Milli, Milli >>

\* C16: at every time reached by Update calls, the position of every light
\* from index 1 on differs from offset (0, 3, 0) by at most scale (13, 2, 13)
\* on each axis, and the position of the first light differs from its base
\* (-3, 2, 0) by at most 1 on each axis.
C16_LightsBounded ==
  \A k \in 1..Len(lights) :
    IF k = 1 THEN Within(lights[k].position, HeroBase, UnitBox)
    ELSE Within(lights[k].position, offset, scale)

\* Update has run several times; a light has reached the far end of its
\* x range and the first light is below its base
C16_Witness ==
  /\ t > 3
  /\ lights[1].position[2] < HeroBase[2]
  /\ \E k \in 2..Len(lights) : lights[k].position[1] = offset[1] - scale[1]

\* C17: after Init with numCubes >= 1 the cube list holds exactly numCubes
\* positions, the first is (0, 0.5, 0) and every other lies in the box
\* x in [-5, 5], y in [1, 5], z in [-5, 5]; for numCubes = 5 these are the
\* fixed cube and 4 random ones.
C17_CubePositions ==
  numCubes >= 1 =>
    /\ Len(cubePositions) = numCubes
    /\ cubePositions[1] = << 0, 500, 0 >>
    /\ \A k \in 2..Len(cubePositions) :
         /\ -5000 <= cubePositions[k][1] /\ cubePositions[k][1] <= 5000
         /\ 1000 <= cubePositions[k][2] /\ cubePositions[k][2] <= 5000
         /\ -5000 <= cubePositions[k][3] /\ cubePositions[k][3] <= 5000
    /\ numCubes = 5 => Len(Tail(cubePositions)) = 4

\* main's scene of 5 cubes, with random cubes in opposite corners of the box
C17_Witness ==
  /\ numCubes = NumCubesMain /\ numLights = NumLightsMain
  /\ Len(cubePositions) = NumCubesMain
  /\ cubePositions[2] = << -5000, 1000, -5000 >>
  /\ cubePositions[5] = << 5000, 5000, 5000 >>

\* the components of v, a tuple of numbers, lie between lo and hi
AllBetween(v, lo, hi) == \A a \in 1..Len(v) : lo <= v[a] /\ v[a] <= hi

\* C18 as stated: after Init with numCubes = 5 and numLights = 1 the light
\* store holds the hero light at (-3, 3, 0) and 4 further lights with
\* movement and colour components from the documented ranges.
C18_AsStated ==
  (numCubes = 5 /\ numLights = 1) =>
    /\ Len(lights) = 1 + 4
    /\ t = 0 => lights[1].position = << -3000, 3000, 0 >>
    /\ \A k \in 2..Len(lights) :
         /\ AllBetween(lights[k].movement, -2000, 2000)
         /\ AllBetween(SubSeq(lights[k].color, 1, 3), 0, 5000)

\* C18: after Init the light store holds max(numLights, 1) lights; the first
\* is the hero light, at the fixed anchor (-3, 3, 0) until Update moves it,
\* and each of the numLights - 1 further lights has movement components in
\* [-2, 2] and colour components in [0, 5] and starts at (0, 5, 0). After
\* Init with numCubes = 5 and numLights = 1 the hero light is the only light.
C18_LightStore ==
  /\ Len(lights) = (IF numLights > 1 THEN numLights ELSE 1)
  /\ (numCubes = 5 /\ numLights = 1) => Len(lights) = 1
  /\ lights[1].movement = << 0, 1000, 0, 0 >>
  /\ SubSeq(lights[1].color, 1, 3) = << 10000, 10000, 10000 >>
  /\ t = 0 => lights[1].position = << -3000, 3000, 0 >>
  /\ \A k \in 2..Len(lights) :
       /\ AllBetween(lights[k].movement, -2000, 2000)
       /\ AllBetween(SubSeq(lights[k].color, 1, 3), 0, 5000)
       /\ t = 0 => lights[k].position = << 0, 5000, 0 >>

\* main's scene after Init: 5 cubes, and the hero light alone in the store
C18_Witness ==
  /\ numCubes = NumCubesMain /\ numLights = NumLightsMain /\ t = 0
  /\ Len(cubePositions) = 5
  /\ Len(lights) = 1 /\ lights[1].position = HeroAnchor

\* ------------------------------------------------------------------------
\* C19, C20: the shadow-map pass of the spotlight pipeline
\* ------------------------------------------------------------------------

\* C19: a shadow-map pass returns with the draw and read framebuffer bindings
\* it started with, which is the HDR framebuffer bound by renderScene, and
\* leaves the HDR pixel untouched; of the draws of a spotlight frame, those of
\* the shadow-map pass target the depth-map framebuffer and all others the HDR
\* framebuffer.
C19_FramebufferRestored ==
  [][ /\ pc = "ShadowMaps" =>
           /\ gl'.fbo = gl.fbo /\ gl'.readFbo = gl.readFbo
           /\ gl'.fbo = FB_HDR
           /\ px'[FB_HDR] = px[FB_HDR]
      /\ (pipeline = "spotlight" /\ InDraw') =>
           \A k \in 1..Len(log') : IsDraw(log'[k]) =>
             log'[k].gl.fbo = (IF log'[k].loop = "shadowMaps" THEN FB_DEPTHMAP ELSE FB_HDR) ]_vars

\* After the shadow-map pass wrote the cubes' depth into the depth map, a
\* light pass has drawn into the HDR framebuffer
C19_Witness ==
  /\ pipeline = "spotlight" /\ pc = "SpotLights" /\ numCubes > 0
  /\ px[FB_DEPTHMAP].depth = geom.cubeZ
  /\ px[FB_HDR].color # << >>
  /\ gl.fbo = FB_HDR

\* the commands of the current frame issued from the given loop of Draw
InLoop(loop) == { k \in 1..Len(log) : log[k].loop = loop }

\* C20: in a spotlight frame every command of the shadow-map loop precedes
\* every command of the light loops, the shadow maps are drawn with colour
\* write disabled, and once a light loop has started one shadow map was drawn
\* for each spot light.
C20_ShadowMapsFirst ==
  (pipeline = "spotlight" /\ InDraw) =>
    /\ \A m \in InLoop("shadowMaps") :
         /\ IsDraw(log[m]) => log[m].gl.colorMask = AllFalse
         /\ \A c \in InLoop("pointLights") \cup InLoop("spotLights") : m < c
    /\ \A c \in DrawCalls :
         log[c].gl.colorMask # AllFalse => log[c].loop \in {"pointLights", "spotLights"}
    /\ pc \in {"PointLights", "SpotLights", "Restore", "Present"} =>
         \A l \in 0..(numSpotLights - 1) :
           Cardinality({ m \in InLoop("shadowMaps") : IsDraw(log[m]) /\ log[m].light = l }) = 1

\* The first light pass of a spotlight frame is about to run and the shadow
\* map has been drawn
C20_Witness ==
  /\ pipeline = "spotlight" /\ pc = "PointLights" /\ i = 0 /\ numSpotLights > 0
  /\ \E m \in InLoop("shadowMaps") : IsDraw(log[m]) /\ log[m].n > 0


\* ------------------------------------------------------------------------
\* C21: the direct-light pass of the spot lights
\* ------------------------------------------------------------------------

\* the draws issued for spot light l by the spot-light loop with colour
\* write on, additive blending and the shadow map on texture unit 4
SpotLightDraws(l) ==
  { k \in InLoop("spotLights") :
      /\ IsDraw(log[k]) /\ log[k].light = l
      /\ log[k].gl.colorMask = AllTrue
      /\ log[k].gl.caps["GL_BLEND"] /\ log[k].gl.blendEq = "GL_FUNC_ADD"
      /\ log[k].gl.blendSrc = "GL_ONE" /\ log[k].gl.blendDst = "GL_ONE"
      /\ log[k].gl.handles.depthMapTexture # 0
      /\ log[k].gl.tex[4]["GL_TEXTURE_2D"] = log[k].gl.handles.depthMapTexture }

\* C21: when a spotlight frame has been drawn, every spot light has a
\* background draw and an instanced object draw of its own, issued after its
\* shadow-map draw with colour write enabled, additive blending and the
\* shadow map bound at texture unit 4.
C21_SpotLightPass ==
  (pipeline = "spotlight" /\ DrawReturned) =>
    \A l \in 0..(numSpotLights - 1) :
      /\ \E k \in SpotLightDraws(l) : log[k].op = "glDrawElements"
      /\ \E k \in SpotLightDraws(l) : log[k].op = "glDrawElementsInstanced"
      /\ \A k \in SpotLightDraws(l), m \in InLoop("shadowMaps") :
           (IsDraw(log[m]) /\ log[m].light = l) => m < k

\* A spotlight frame has been drawn: the spot light's shadow map was
\* rendered and its loop iteration ran, but issued no draw
C21_Witness ==
  /\ pipeline = "spotlight" /\ DrawReturned /\ numSpotLights > 0
  /\ \E m \in InLoop("shadowMaps") : IsDraw(log[m]) /\ log[m].light = 0
  /\ \E k \in InLoop("spotLights") : log[k].op = "glColorMask" /\ log[k].light = 0
  /\ \A k \in InLoop("spotLights") : ~IsDraw(log[k])


\* ------------------------------------------------------------------------
\* C24 .. C28: the GL state in force at the draws of the classic light loop
\* ------------------------------------------------------------------------

\* C24: every shadow-volume draw is issued with the stencil test enabled and
\* always passing, face culling disabled, colour write disabled on all
\* channels and depth write disabled, whatever the convention and the light.
C24_ShadowDrawState ==
  \A k \in ShadowDraws :
    /\ log[k].gl.caps["GL_STENCIL_TEST"]
    /\ log[k].gl.stencilFunc.func = "GL_ALWAYS"
    /\ ~log[k].gl.caps["GL_CULL_FACE"]
    /\ log[k].gl.colorMask = AllFalse
    /\ ~log[k].gl.depthMask

\* The shadow volume of the second light is drawn under the depth-pass
\* convention
C24_Witness ==
  /\ ~carmackReverse /\ numCubes > 0
  /\ \E k \in ShadowDraws : log[k].light = 1 /\ log[k].op = "glDrawElementsInstanced"

\* C25: a draw issued with face culling disabled is a shadow-volume draw:
\* every depth pre-pass, direct-light and ambient draw has backface culling
\* enabled, and between the steps of Draw that follow the global state
\* culling is enabled.
C25_CullingRestored ==
  /\ \A k \in DrawCalls :
       log[k].pass \in {DepthPass, DirectLight, AmbientLight} =>
         log[k].gl.caps["GL_CULL_FACE"] /\ log[k].gl.cullMode = "GL_BACK"
  /\ \A k \in DrawCalls : ~log[k].gl.caps["GL_CULL_FACE"] => log[k].pass = ShadowVolume
  /\ pc \in {"DirectLight", "AmbientLight", "StencilClear", "Restore", "Present"} =>
       gl.caps["GL_CULL_FACE"]

\* A shadow volume has been drawn without culling and the direct-light pass
\* of the same light has drawn after it
C25_Witness ==
  /\ pc = "AmbientLight" /\ numCubes > 0
  /\ \E k \in ShadowDraws, d \in DrawCalls :
       /\ k < d /\ log[d].pass = DirectLight /\ log[d].light = log[k].light
       /\ ~log[k].gl.caps["GL_CULL_FACE"] /\ log[d].gl.caps["GL_CULL_FACE"]

\* the draws of the current frame issued under the given renderPass
DrawsOfPass(renderPass) == { k \in DrawCalls : log[k].pass = renderPass }

\* C26: every direct-light draw of the classic pipeline is issued with the
\* stencil test enabled, function EQUAL with reference 0 and mask 0xff and
\* operations KEEP/KEEP/KEEP on both faces; the direct-light pass leaves the
\* stencil value of the pixel as it is and adds nothing to the colour of a
\* pixel whose stencil value is not 0.
C26_DirectLightStencil ==
  [][ /\ (pipeline = "classic" /\ InDraw') =>
           \A k \in 1..Len(log') :
             (IsDraw(log'[k]) /\ log'[k].pass = DirectLight) =>
               /\ log'[k].gl.caps["GL_STENCIL_TEST"]
               /\ log'[k].gl.stencilFunc = [func |-> "GL_EQUAL", ref |-> 0, mask |-> 255]
               /\ log'[k].gl.stencilOp = [front |-> KeepOps, back |-> KeepOps]
      /\ pc = "DirectLight" =>
           /\ px'[FB_HDR].stencil = px[FB_HDR].stencil
           /\ px[FB_HDR].stencil # 0 => px'[FB_HDR].color = px[FB_HDR].color ]_vars

\* The direct-light pass has drawn over a pixel inside a shadow volume and
\* left it unlit
C26_Witness ==
  /\ pc = "AmbientLight" /\ px[FB_HDR].stencil # 0
  /\ DrawsOfPass(DirectLight) # {}
  /\ DirectFrom(i) = << >>

\* C27: every ambient draw is issued with the stencil test disabled, and
\* the ambient pass of a light adds that light's ambient term to the pixel
\* whatever its stencil value.
C27_AmbientUnstencilled ==
  [][ /\ InDraw' =>
           \A k \in 1..Len(log') :
             (IsDraw(log'[k]) /\ log'[k].pass = AmbientLight) =>
               ~log'[k].gl.caps["GL_STENCIL_TEST"]
      /\ pc = "AmbientLight" =>
           \E a \in 1..Len(px'[FB_HDR].color) :
             /\ px'[FB_HDR].color[a].pass = AmbientLight
             /\ px'[FB_HDR].color[a].light = i ]_vars

\* The ambient pass has lit a pixel that the shadow volume left with a
\* stencil value other than 0
C27_Witness ==
  /\ pc = "Restore" /\ px[FB_HDR].stencil # 0
  /\ DrawsOfPass(AmbientLight) # {}
  /\ \E a \in 1..Len(px[FB_HDR].color) : px[FB_HDR].color[a].pass = AmbientLight

\* C28: every background and cube draw of a light pass is issued with
\* blending enabled, equation ADD and factors ONE/ONE; blending is disabled
\* between the steps of Draw; a draw that can write colour with blending
\* enabled belongs to a light pass; when Draw has returned a pixel the frame
\* rasterises a surface at holds a contribution of every light.
C28_AdditiveLightPasses ==
  InDraw =>
    /\ \A k \in DrawCalls :
         (log[k].pass \in {DirectLight, AmbientLight} /\
          log[k].op \in {"glDrawElements", "glDrawElementsInstanced"}) =>
           /\ log[k].gl.caps["GL_BLEND"]
           /\ log[k].gl.blendEq = "GL_FUNC_ADD"
           /\ log[k].gl.blendSrc = "GL_ONE" /\ log[k].gl.blendDst = "GL_ONE"
    /\ \A k \in DrawCalls :
         (log[k].gl.caps["GL_BLEND"] /\ log[k].gl.colorMask # AllFalse /\ HasColor(log[k].gl.fbo)) =>
           log[k].pass \in {DirectLight, AmbientLight}
    /\ ~gl.caps["GL_BLEND"]
    /\ (pc \in {"Restore", "Present"} /\ SurfaceDrawn) =>
         \A l \in 0..(numLights - 1) :
           \E a \in 1..Len(px[FB_HDR].color) : px[FB_HDR].color[a].light = l

\* Two lights have drawn their passes and the pixel holds terms of both
C28_Witness ==
  /\ pc = "Restore" /\ numLights = 2 /\ ~gl.caps["GL_BLEND"]
  /\ \E a, b \in 1..Len(px[FB_HDR].color) :
       px[FB_HDR].color[a].light = 0 /\ px[FB_HDR].color[b].light = 1

\* ------------------------------------------------------------------------
\* C29: the flags packed into the light position and the light colour
\* ------------------------------------------------------------------------

\* the values the logged call has given to the uniform of that name
ValuesOf(name) ==
  { log[k].val : k \in { j \in 1..Len(log) : log[j].op = "glUniform" /\ log[j].arg = name } }

\* The sentence as written: whatever the combination of pass flags, the
\* light position is set with 4th component 1 or 0 by DirectLight and the
\* light colour with the ambient intensity or 0 by AmbientLight
C29_AsStated ==
  pc = "called" =>
    LET rp == log[1].pass
    IN /\ ValuesOf("lightPosWS") =
            {IF Contains(rp, DirectLight) THEN "w=1.0" ELSE "w=0.0"}
       /\ ValuesOf("lightColor") =
            {IF Contains(rp, AmbientLight) THEN "w=lightColor.w" ELSE "w=0.0"}

\* C29: a draw helper called with any combination of pass flags uploads the
\* light position exactly when the combination contains ShadowVolume,
\* DirectLight or AmbientLight, with 4th component 1 if it contains
\* DirectLight and 0 otherwise, and the light colour exactly when the
\* combination contains DirectLight or AmbientLight, with the light's
\* ambient intensity as 4th component if it contains AmbientLight and 0
\* otherwise; with any other combination the uniform is not set. The direct
\* sub-pass gets colour with ambient 0, the ambient sub-pass gets the
\* position with flag 0 and so does the shadow-volume pass, which sets no
\* light colour.
C29_PackedFlags ==
  pc = "called" =>
    LET rp == log[1].pass
        lit == Contains(rp, DirectLight) \/ Contains(rp, AmbientLight)
    IN /\ ValuesOf("lightPosWS") =
            (IF lit \/ Contains(rp, ShadowVolume)
             THEN {IF Contains(rp, DirectLight) THEN "w=1.0" ELSE "w=0.0"} ELSE {})
       /\ ValuesOf("lightColor") =
            (IF lit
             THEN {IF Contains(rp, AmbientLight) THEN "w=lightColor.w" ELSE "w=0.0"} ELSE {})
       /\ rp = DirectLight =>
            ValuesOf("lightPosWS") = {"w=1.0"} /\ ValuesOf("lightColor") = {"w=0.0"}
       /\ rp = AmbientLight =>
            ValuesOf("lightPosWS") = {"w=0.0"} /\ ValuesOf("lightColor") = {"w=lightColor.w"}
       /\ rp = ShadowVolume =>
            ValuesOf("lightPosWS") = {"w=0.0"} /\ ValuesOf("lightColor") = {}

\* A helper was called with DirectLight | AmbientLight: both 4th components
\* are switched on
C29_Witness ==
  /\ pc = "called" /\ log[1].pass = DirectLight + AmbientLight
  /\ ValuesOf("lightPosWS") = {"w=1.0"}
  /\ ValuesOf("lightColor") = {"w=lightColor.w"}

\* ------------------------------------------------------------------------
\* C30: mesh and topology of DrawObjects
\* ------------------------------------------------------------------------

\* the instanced draws of the logged call
InstancedDraws == { k \in 1..Len(log) : log[k].op = "glDrawElementsInstanced" }

\* C30: DrawObjects of the classic build, called with any combination of
\* pass flags, issues one instanced draw: of the adjacency cube mesh with
\* GL_TRIANGLES_ADJACENCY if the combination contains ShadowVolume, of the
\* plain cube mesh with GL_TRIANGLES otherwise, and with _numCubes instances.
C30_MeshTopology ==
  (pc = "called" /\ pipeline = "classic" /\ log[1].arg = "Instancing") =>
    /\ Cardinality(InstancedDraws) = 1
    /\ \A k \in InstancedDraws :
         /\ log[k].n = numCubes
         /\ IF Contains(log[k].pass, ShadowVolume)
            THEN log[k].arg = "GL_TRIANGLES_ADJACENCY" /\ log[k].val = "cubeAdjacency"
            ELSE log[k].arg = "GL_TRIANGLES" /\ log[k].val = "cube"

\* DrawObjects was called with ShadowVolume | DirectLight and drew the
\* adjacency mesh
C30_Witness ==
  /\ pc = "called" /\ pipeline = "classic" /\ numCubes > 0
  /\ \E k \in InstancedDraws :
       /\ log[k].pass = ShadowVolume + DirectLight
       /\ log[k].arg = "GL_TRIANGLES_ADJACENCY" /\ log[k].n = numCubes

\* ------------------------------------------------------------------------
\* main.cpp: mainLoop and shutDown
\* ------------------------------------------------------------------------

\* while (!glfwWindowShouldClose(handle)): the only place the flag is read
MainLoop_While ==
  /\ mainLoop = "while"
  /\ shouldClose \/ iterations < MaxFrames
  /\ mainLoop' = IF shouldClose THEN "return" ELSE "glfwPollEvents"
  /\ iterations' = IF shouldClose THEN iterations ELSE iterations + 1
  /\ UNCHANGED << scene, settings, shouldClose, driver, console, gl, px, log, inst, pc, i,
                  frame, keys >>

\* glfwPollEvents: the callbacks of the pending events, one after another,
\* any key with any action and resizes of the window, as many events in a
\* run as MaxKeys
PollEvents_Callback ==
  /\ mainLoop = "glfwPollEvents" /\ pc = "idle" /\ keys < MaxKeys
  /\ keys' = keys + 1
  /\ \/ \E key \in Keys, action \in KeyActions : keyCallback(key, action)
     \/ resizeCallback

\* glfwPollEvents returns; a loop that tested the flag here would differ
PollEvents_Return_ChecksClose ==
  /\ mainLoop = "glfwPollEvents"
  /\ mainLoop' = IF shouldClose THEN "return" ELSE "processInput"
  /\ UNCHANGED << scene, settings, shouldClose, iterations, driver, console, gl, px, log,
                  inst, pc, i, frame, keys >>

\* glfwPollEvents returns, on to processInput
PollEvents_Return ==
  /\ mainLoop = "glfwPollEvents"
  /\ mainLoop' = "processInput"
  /\ UNCHANGED << scene, settings, shouldClose, iterations, driver, console, gl, px, log,
                  inst, pc, i, frame, keys >>

\* processInput(dt) moves the camera, which the sample pixel stands in for
MainLoop_ProcessInput ==
  /\ mainLoop = "processInput"
  /\ mainLoop' = "Update"
  /\ UNCHANGED << scene, settings, shouldClose, iterations, driver, console, gl, px, log,
                  inst, pc, i, frame, keys >>

\* if (animate) scene.Update(dt)
MainLoop_Update ==
  /\ mainLoop = "Update"
  /\ IF animate
     THEN \E dt \in FrameTimes :
            /\ lights' = UpdateLights(lights, numLights, t)
            /\ spotLights' = UpdateSpotLights(spotLights, t)
            /\ t' = t + dt
     ELSE UNCHANGED << lights, spotLights, t >>
  /\ mainLoop' = "renderScene"
  /\ UNCHANGED << pipeline, numCubes, numLights, numSpotLights, cubePositions, geom,
                  settings, shouldClose, iterations, driver, console, gl, px, log, inst,
                  pc, i, frame, keys >>

\* renderScene(), one step of it
MainLoop_RenderScene ==
  /\ mainLoop = "renderScene"
  /\ frame < iterations
  /\ NextDraw

\* glfwSwapBuffers(handle), then back to the loop condition
MainLoop_SwapBuffers ==
  /\ mainLoop = "renderScene"
  /\ pc = "idle" /\ frame = iterations
  /\ mainLoop' = "while"
  /\ UNCHANGED << scene, settings, shouldClose, iterations, driver, console, gl, px, log,
                  inst, pc, i, frame, keys >>

\* The graphics context: "none" before the window is created, "unloaded"
\* while it is current and the GL entry points are not loaded, "current",
\* and "destroyed" after glfwDestroyWindow
ContextExists(g) == g.context \in {"unloaded", "current"}
\* GL commands are defined with a current context and loaded entry points
Callable(g) == g.context = "current"
\* glfwDestroyWindow: the context goes, and its objects with it
glfwDestroyWindow(c) ==
  Ev(IF ContextExists(c.gl)
     THEN [c EXCEPT !.gl.context = "destroyed", !.gl.textures = {}, !.gl.renderbuffers = {}]
     ELSE c, "glfwDestroyWindow", "mainWindow.handle", "", 0)
glfwTerminate(c) == Ev(c, "glfwTerminate", "", "", 0)

\* What the first GL command of a sequence does, by the state of the
\* context: defined with a current context and loaded entry points; a call
\* through an entry point that was never loaded ends the process; after a
\* failed load, and once the context is destroyed, either
CallOutcomes(g) ==
  IF Callable(g) THEN {"ok"}
  ELSE IF g.context = "none" THEN {"crash"}
  ELSE {"ok", "crash"}

\* glDeleteFramebuffers(1, &name): a binding of the deleted framebuffer
\* reverts to the window framebuffer; the name 0 is ignored
glDeleteFramebuffers(c, name) ==
  LET unbound(fb) == IF name # FB_WINDOW /\ fb = name THEN FB_WINDOW ELSE fb
  IN Ev([c EXCEPT !.gl.fbo = unbound(@), !.gl.readFbo = unbound(@)],
        "glDeleteFramebuffers", "fbo", "", name)

\* shutDown: delete the programs, the render target, the depth-stencil
\* renderbuffer and the framebuffer, destroy the window, terminate GLFW
shutDown(c) ==
  LET c1 == Ev(c, "glDeleteProgram", "shaderProgram", "", c.gl.handles.shaderProgram)
      c2 == glDeleteTextures(c1, c.gl.handles.renderTarget)
      c3 == glDeleteRenderbuffers(c2, c.gl.handles.depthStencil)
      c4 == glDeleteFramebuffers(c3, IF c.gl.handles.renderTarget # 0 THEN FB_HDR ELSE 0)
  IN glfwTerminate(glfwDestroyWindow(c4))

\* Scene::~Scene: release the instancing buffer, the VAO and the textures
Scene_Destructor(c) ==
  LET c1 == Ev(c, "glDeleteBuffers", "_instancingBuffer", "", c.gl.handles.instancingBuffer)
      c2 == Ev(c1, "glDeleteVertexArrays", "_vao", "", c.gl.handles.vao)
  IN Ev(c2, "glDeleteTextures", "_loadedTextures", "", c.gl.handles.loadedTextures)

\* main after mainLoop returned: print the version and the vendor of the
\* implementation, shutDown(), return 0; and main after initOpenGL or
\* compileShaders failed: shutDown(), return -1. The call of shutDown that
\* ends the process does so at its first command, glDeleteProgram.
Main_ShutDown ==
  /\ mainLoop \in {"return", "failed"}
  /\ \E o \in CallOutcomes(gl) :
       LET c0 == IF mainLoop = "return"
                 THEN printf(printf(printf(Cur, "glGetString(GL_VERSION)", ""), "%c", "\\n"),
                             "glGetString(GL_VENDOR)", "")
                 ELSE Cur
           c1 == IF o = "crash" THEN c0 ELSE shutDown(c0)
       IN /\ Apply(c1)
          /\ console' = console \o Printed(SubSeq(c1.log, Len(log) + 1, Len(c1.log)))
          /\ mainLoop' = IF o = "crash" THEN "crashed" ELSE "exit"
  /\ UNCHANGED << scene, settings, shouldClose, iterations, driver,
                  inst, pc, i, frame, keys >>

NextMain ==
  \/ MainLoop_While
  \/ PollEvents_Callback
  \/ PollEvents_Return
  \/ MainLoop_ProcessInput
  \/ MainLoop_Update
  \/ MainLoop_RenderScene
  \/ MainLoop_SwapBuffers
  \/ Main_ShutDown

\* main up to mainLoop in the build that defines Scene::CreateDepthBuffer, with
\* one cube and one light, on an implementation that may find either
\* framebuffer unsupported or incomplete at every later creation; at start-up
\* it accepted both framebuffers or neither
MainDriver == [ClearedDriver EXCEPT !.status = FramebufferStatuses]
InitMain ==
  \E st \in Verdicts(MainDriver, DefaultSize) :
    MainInitWith("spotlight", 1, NumLightsMain, PlainGeom(NumLightsMain), TRUE,
                 EndCubes(1, FALSE), EndLights(NumLightsMain, FALSE),
                 MainDriver, [AllComplete EXCEPT !.hdr = st, !.depth = st])

SpecMain == InitMain /\ [][NextMain]_vars

\* A step of main is possible: main has not returned, and the loop has not
\* used up the iterations that are followed
Runnable ==
  /\ mainLoop \notin {"exit", "crashed"}
  /\ ~(mainLoop = "while" /\ ~shouldClose /\ iterations >= MaxFrames)

\* main runs on, every call returns and the next statement is executed: weak
\* fairness WF_vars(NextMain), with ENABLED <<NextMain>>_vars written out as
\* Runnable
SpecMainFair == SpecMain /\ ([]<>(~Runnable) \/ []<><<NextMain>>_vars)

\* ------------------------------------------------------------------------
\* C22: a framebuffer that fails the completeness check
\* ------------------------------------------------------------------------

\* the framebuffer objects that are incomplete
Incomplete(g) == { fb \in {FB_HDR, FB_DEPTHMAP} : ~IsComplete(g, fb) }
\* the completeness checks of one framebuffer among the commands l
ChecksOf(l, fb) ==
  { k \in 1..Len(l) : l[k].op = "glCheckFramebufferStatus" /\ l[k].n = fb }
\* the failure diagnostics among the printed lines
FailureLines(lines) ==
  { k \in 1..Len(lines) :
      lines[k].text \in {"Failed to create framebuffer", "Failed to create depth framebuffer"} }

\* A step of the F1 branch of keyCallback or of resizeCallback, the callbacks
\* that call createFramebuffer: the log of the step starts with the press
\* of F1 or with the glViewport of resizeCallback
CallbackCreates ==
  /\ keys' = keys + 1
  /\ \/ /\ log'[1].op = "keyCallback"
        /\ log'[1].arg = "GLFW_KEY_F1" /\ log'[1].val = "GLFW_PRESS"
     \/ log'[1].op = "glViewport"

\* C22: a call of createFramebuffer from a callback, whatever the two
\* completeness checks report, checks each framebuffer once, prints one line
\* per incomplete framebuffer and nothing else, ends by binding the default
\* framebuffer and returns into event polling with the close flag untouched;
\* mainLoop is only left after a close request; and from event polling with
\* an incomplete framebuffer the frame of the iteration is still rendered and
\* swapped.
C22_FailureOnlyLogged ==
  /\ [][ /\ CallbackCreates =>
              /\ gl'.fbo = FB_WINDOW /\ gl'.readFbo = FB_WINDOW
              /\ log'[Len(log')].op = "glBindFramebuffer" /\ log'[Len(log')].n = FB_WINDOW
              /\ \A fb \in {FB_HDR, FB_DEPTHMAP} : Cardinality(ChecksOf(log', fb)) = 1
              /\ Len(console') = Len(console) + Cardinality(Incomplete(gl'))
              /\ \A k \in (Len(console) + 1)..Len(console') :
                   /\ k \in FailureLines(console')
                   /\ console'[k].status # "GL_FRAMEBUFFER_COMPLETE"
              /\ pc' = "idle" /\ mainLoop' = mainLoop /\ shouldClose' = shouldClose
         /\ mainLoop' \in {"return", "exit"} => shouldClose' ]_vars
  /\ (Incomplete(gl) # {} /\ mainLoop = "glfwPollEvents")
       ~> (mainLoop = "while" /\ frame = iterations)

\* Both framebuffers failed the check at start-up and again in a callback,
\* and the frame of that iteration was rendered and swapped all the same,
\* every write to the HDR framebuffer rejected
C22_Witness ==
  /\ Cardinality(FailureLines(console)) = 4
  /\ Incomplete(gl) = {FB_HDR, FB_DEPTHMAP}
  /\ keys = 1 /\ ~shouldClose
  /\ mainLoop = "while" /\ frame = iterations /\ frame >= 1
  /\ px[FB_HDR] = ZeroFill

\* ------------------------------------------------------------------------
\* C23: a close request during a frame
\* ------------------------------------------------------------------------

\* the statement that follows each statement of main from mainLoop on
AfterStatement ==
  [ s \in {"glfwPollEvents", "processInput", "Update", "renderScene", "return"} |->
      CASE s = "glfwPollEvents" -> "processInput"
        [] s = "processInput"   -> "Update"
        [] s = "Update"         -> "renderScene"
        [] s = "renderScene"    -> "while"
        [] s = "return"         -> "exit" ]

\* C23: the close flag is set only by a callback of event polling and read
\* only by the loop condition: below the loop condition every statement is
\* followed by the next one whatever the flag says, the loop condition is
\* reached again only when the frame of the iteration is rendered, mainLoop
\* returns only from the loop condition with the flag set and with every
\* iteration it began rendered, and no iteration begins once the flag is set;
\* a close request during event polling leads to the loop condition with the
\* frame of that iteration rendered and swapped, and every close request
\* leads to main's exit after shutDown.
C23_FrameRunsToCompletion ==
  /\ [][ /\ (shouldClose' /\ ~shouldClose) =>
              (mainLoop = "glfwPollEvents" /\ mainLoop' = "glfwPollEvents")
         /\ (mainLoop # "while" /\ mainLoop' # mainLoop) => mainLoop' = AfterStatement[mainLoop]
         /\ (mainLoop = "renderScene" /\ mainLoop' = "while") =>
              (pc = "idle" /\ frame = iterations)
         /\ (mainLoop = "while" /\ mainLoop' # mainLoop) =>
              mainLoop' = (IF shouldClose THEN "return" ELSE "glfwPollEvents")
         /\ mainLoop' \in {"return", "exit"} => (shouldClose' /\ frame' = iterations')
         /\ shouldClose => (shouldClose' /\ iterations' = iterations) ]_vars
  /\ (shouldClose /\ mainLoop = "glfwPollEvents")
       ~> (shouldClose /\ mainLoop = "while" /\ frame = iterations)
  /\ shouldClose ~> (mainLoop = "exit")

\* Escape was pressed during event polling of the second iteration: the
\* second frame was drawn to the end, no third iteration began, and main has
\* run shutDown
C23_Witness ==
  /\ shouldClose /\ keys = 1
  /\ mainLoop = "exit"
  /\ iterations = 2 /\ frame = 2
  /\ pc = "idle"
  /\ \E k \in 1..Len(log) : IsDraw(log[k])

\* ------------------------------------------------------------------------
\* Sequences of frames with tonemapping switched on and off in between
\* ------------------------------------------------------------------------

NextFrames == NextDraw \/ KeyF4

\* One cube and up to MaxLights lights, in either build
InitFrames ==
  \E pipe \in Pipelines, nl \in 0..MaxLights, upper \in BOOLEAN :
    SceneInitAt(pipe, 1, nl, PlainGeom(nl), TRUE, upper)

SpecFrames == InitFrames /\ [][NextFrames]_vars

\* ------------------------------------------------------------------------
\* C31: the light position marker
\* ------------------------------------------------------------------------

\* the draws of the light marker in the current frame
Markers == { k \in 1..Len(log) : log[k].op = "glDrawArrays" /\ log[k].arg = "GL_POINTS" }
\* the cube draws of DrawObjects calls whose pass contains the AmbientLight flag
AmbientCubeDraws ==
  { k \in 1..Len(log) : /\ log[k].op = "glDrawElementsInstanced"
                        /\ HasPass(log[k].pass, AmbientLight) }

\* C31: in a classic frame every marker draw belongs to a pass with the
\* AmbientLight flag, which is the ambient sub-pass of a light of the light
\* loop, and is issued with blending disabled; every light has as many marker
\* draws as DrawObjects calls with the AmbientLight flag, at most one at any
\* time and exactly one when Draw returns; so no marker is drawn in the depth
\* pre-pass, the shadow-volume pass or the direct-light pass.
C31_MarkerInAmbientPass ==
  (pipeline = "classic" /\ InDraw) =>
    /\ \A k \in Markers :
         /\ HasPass(log[k].pass, AmbientLight)
         /\ log[k].pass = AmbientLight
         /\ log[k].loop = "lights" /\ log[k].light \in 0..(numLights - 1)
         /\ ~log[k].gl.caps["GL_BLEND"]
    /\ \A l \in 0..(numLights - 1) :
         LET marked == Cardinality({ k \in Markers : log[k].light = l })
         IN /\ marked = Cardinality({ k \in AmbientCubeDraws : log[k].light = l })
            /\ marked <= 1
            /\ DrawReturned => marked = 1

\* A classic frame with two lights has returned from Draw with the marker of
\* each light drawn
C31_Witness ==
  /\ pipeline = "classic" /\ DrawReturned /\ numLights = 2
  /\ Cardinality(Markers) = 2
  /\ \E k \in DrawsOfPass(DirectLight) : log[k].light = 1

\* ------------------------------------------------------------------------
\* C32: the light matrix of the shadow-map pass
\* ------------------------------------------------------------------------

\* the shadow-map draws of the current frame
ShadowMapDraws == { k \in InLoop("shadowMaps") : IsDraw(log[k]) }

\* the view transform of an observer at the spot light that faces along the
\* light's direction
FacingView(sl) ==
  lookAt(sl.position,
         << sl.position[1] + sl.lightDirection[1], sl.position[2] + sl.lightDirection[2],
            sl.position[3] + sl.lightDirection[3] >>,
         UpVector)

\* C32: every shadow-map draw of a spotlight frame is issued with a light
\* matrix made of the camera's projection and of the view transform placed
\* at the spot light, facing along the light's direction, with the up-vector
\* (0, 1, 0).
C32_LightMatrixFacesDirection ==
  (pipeline = "spotlight" /\ InDraw) =>
    \A k \in ShadowMapDraws :
      /\ log[k].gl.lightMatrix.projection = "camera"
      /\ log[k].gl.lightMatrix.view = FacingView(spotLights[log[k].light + 1])

\* The shadow map of the spot light was drawn with a view transform placed at
\* the light with the up-vector (0, 1, 0), which faces the origin of the scene
\* and not along the light's direction
C32_Witness ==
  /\ pipeline = "spotlight" /\ pc = "SpotLights"
  /\ \E k \in ShadowMapDraws :
       LET view == log[k].gl.lightMatrix.view
           sl   == spotLights[log[k].light + 1]
       IN /\ view.eye = sl.position /\ view.up = UpVector
          /\ view.forward = Normalize(<< -sl.position[1], -sl.position[2], -sl.position[3] >>)
          /\ view.forward # Normalize(sl.lightDirection)

\* ------------------------------------------------------------------------
\* C33: the clear at the start of Draw
\* ------------------------------------------------------------------------

\* the colour and depth clears of the current frame
FrameClears == { k \in 1..Len(log) : IsClear(log[k], {"COLOR", "DEPTH"}) }

\* C33: in every frame of a sequence of frames of either pipeline, with
\* tonemapping switched on or off in between, the colour and depth clear at
\* the start of Draw is issued on the HDR framebuffer with all four channels
\* of the colour write mask and the depth write enabled, and it leaves the
\* sample pixel with no colour and the clear depth.
C33_ClearWithFullMasks ==
  /\ \A k \in FrameClears :
       /\ log[k].gl.fbo = FB_HDR
       /\ log[k].gl.colorMask = AllTrue
       /\ log[k].gl.depthMask
  /\ (Len(log) > 0 /\ Len(log) \in FrameClears) =>
       /\ px[FB_HDR].color = << >>
       /\ px[FB_HDR].depth = gl.clearDepth

\* The clear of the second frame has just run, after a tonemapping toggle; the
\* first frame was a classic one with a light, which ended with the depth
\* write disabled
C33_Witness ==
  /\ frame = 1 /\ keys = 1 /\ pipeline = "classic" /\ numLights > 0
  /\ Len(log) > 0 /\ Len(log) \in FrameClears
  /\ px[FB_HDR].color = << >> /\ px[FB_HDR].depth = DepthFar

\* ------------------------------------------------------------------------
\* C34: no per-light state in the depth pre-pass of the next frame
\* ------------------------------------------------------------------------

\* C34: in every frame of a sequence of classic frames, for every light count,
\* the draws of the depth pre-pass are issued with the stencil test disabled
\* and blending disabled, and every iteration of the light loop ends with both
\* disabled.
C34_NoLightStateInPrePass ==
  (pipeline = "classic" /\ InDraw) =>
    /\ \A k \in DrawsOfPass(DepthPass) :
         /\ ~log[k].gl.caps["GL_STENCIL_TEST"]
         /\ ~log[k].gl.caps["GL_BLEND"]
    /\ (pc \in {"StencilClear", "Restore", "Present"}) =>
         /\ ~gl.caps["GL_STENCIL_TEST"]
         /\ ~gl.caps["GL_BLEND"]

\* The depth pre-pass of the second frame of a classic scene with two lights
\* has drawn, after a first frame whose light loop enabled the stencil test
\* and blending twice
C34_Witness ==
  /\ pipeline = "classic" /\ numLights = 2 /\ frame = 1
  /\ pc = "DepthMaskOff"
  /\ DrawsOfPass(DepthPass) # {}

\* ------------------------------------------------------------------------
\* C35: indices into the cube position list and the light lists
\* ------------------------------------------------------------------------

\* Scene::Init(nc, nl) of either build for 0..MaxCubes cubes and 0..MaxLights
\* lights, then frames and animation steps in any order
InitBounds ==
  \E pipe \in Pipelines, nc \in 0..MaxCubes, nl \in 0..MaxLights, upper \in BOOLEAN :
    SceneInitAt(pipe, nc, nl, PlainGeom(nl), TRUE, upper)
NextBounds == NextDraw \/ KeyF5 \/ Update
SpecBounds == InitBounds /\ [][NextBounds]_vars

\* the valid indices of a list
IndicesOf(list) == 0..(Len(list) - 1)
\* the light indices Draw has passed to its passes in the current frame
DrawLightIndices(loops) == { log[k].light : k \in { j \in 1..Len(log) : log[j].loop \in loops } }

\* C35: after Init with any numCubes >= 0 and numLights >= 0 the cube list
\* holds max(1, numCubes) entries and the light list max(1, numLights), the
\* spot light list of the spotlight build one; every index UpdateInstanceData
\* reads from the cube list, every light index Draw uses in its loops and
\* every index Update uses, light 0 and spot light 0 included, is within
\* the list.
C35_IndicesInBounds ==
  /\ Len(cubePositions) = Max(1, numCubes)
  /\ Len(lights) = Max(1, numLights)
  /\ inst.read \subseteq IndicesOf(cubePositions)
  /\ (pc = "UpdateInstanceData" /\ i < numCubes) => i \in IndicesOf(cubePositions)
  /\ DrawLightIndices({"lights", "pointLights"}) \subseteq IndicesOf(lights)
  /\ DrawLightIndices({"shadowMaps", "spotLights"}) \subseteq IndicesOf(spotLights)
  /\ UpdateLightIndices(numLights) \subseteq IndicesOf(lights)
  /\ UpdateSpotLightIndices(pipeline) \subseteq IndicesOf(spotLights)
  /\ pc # "crashed"

\* A scene made with numCubes = 0 and numLights = 0 has been animated, which
\* moved light 0, and its frame has returned from Draw
C35_Witness ==
  /\ numCubes = 0 /\ numLights = 0 /\ DrawReturned
  /\ t > 0 /\ lights[1].position # HeroAnchor
  /\ Len(cubePositions) = 1 /\ Len(lights) = 1

\* ------------------------------------------------------------------------
\* C36: the first Update call
\* ------------------------------------------------------------------------

\* the point on the curve of point light k (from 1) at a time
CurvePosition(k, lt, time) ==
  IF k = 1 THEN VecAdd(HeroBase, lissajous(lt.movement, time))
  ELSE VecAdd(offset, VecMul(lissajous(lt.movement, time), scale))

\* C36: an Update call places every point light at the point of its curve
\* for the timer value before dt is added, which is the sum of the dt values
\* of the earlier calls; the first call, at timer value 0, leaves every point
\* light, the hero light included, at the position Init gave it.
C36_NoJumpAtStart ==
  [][ t' # t =>
        \A k \in 1..Len(lights) :
          /\ lights'[k].position = CurvePosition(k, lights[k], t)
          /\ (t = 0) => lights'[k].position = lights[k].position ]_vars

\* After the first Update call, with a frame time of one unit, both
\* lights of a scene are where Init put them
C36_Witness ==
  /\ t = 1 /\ numLights = 2 /\ Len(lights) = 2
  /\ lights \in InitLights(2)
  /\ lights[1].position = HeroAnchor

\* ------------------------------------------------------------------------
\* C37, C38: the render targets after MSAA toggles and resizes
\* ------------------------------------------------------------------------

\* initOpenGL and Scene::Init on an implementation that supports every
\* framebuffer, with either allocator of names, and whose new storage holds
\* zeroes, a set stencil or the far depth, then frames, F1 presses and window
\* resizes
TargetsDriver ==
  [ClearedDriver EXCEPT
     !.names = NamePolicies,
     !.storage = FreshStorage({ZeroFill, [ZeroFill EXCEPT !.stencil = StencilMax]},
                              {ZeroFill, [ZeroFill EXCEPT !.depth = DepthFar]})]
InitTargets ==
  \E pipe \in Pipelines, impl \in Behaviours(TargetsDriver, DefaultSize) :
    MainInitWith(pipe, 1, 1, PlainGeom(1), TRUE, EndCubes(1, FALSE), EndLights(1, FALSE),
                 TargetsDriver, impl)
F1Pressed ==
  pc = "idle" /\ keys < MaxEvents /\ keys' = keys + 1 /\ keyCallback("GLFW_KEY_F1", "GLFW_PRESS")
Resized == pc = "idle" /\ keys < MaxEvents /\ keys' = keys + 1 /\ resizeCallback
NextTargets == NextDraw \/ F1Pressed \/ Resized
SpecTargets == InitTargets /\ [][NextTargets]_vars

\* the textures of g that main's renderTarget names
RenderTargets(g) == { x \in g.textures : x.name = g.handles.renderTarget }
\* the texture target of the binding the tonemapping pass makes (command
\* k - 2 binds, k - 1 binds the vertex array, k draws)
BoundTarget(k) == IF log[k - 2].op = "glBindTexture" THEN log[k - 2].arg ELSE "none"
\* the draws of the fullscreen quad of the tonemapping pass
TonemapDraws ==
  { k \in 1..Len(log) : log[k].op = "glDrawArrays" /\ log[k].gl.program = "Tonemapping" }

\* The sentence as written: after any sequence of F1 presses and window
\* resizes msaaLevel is 1 or MSAA_SAMPLES, the texture renderTarget names has
\* multisample storage with msaaLevel samples when msaaLevel > 1 and plain 2D
\* storage otherwise, and the tonemapping pass binds it to the target of its
\* storage.
C37_AsStated ==
  /\ renderMode.msaaLevel \in {1, MSAA_SAMPLES}
  /\ \E x \in RenderTargets(gl) :
       /\ RenderTargets(gl) = {x}
       /\ x.samples = (IF renderMode.msaaLevel > 1 THEN renderMode.msaaLevel ELSE 0)
       /\ x.target = "GL_TEXTURE_2D_MULTISAMPLE" <=> renderMode.msaaLevel > 1
       /\ x.target \in {"GL_TEXTURE_2D_MULTISAMPLE", "GL_TEXTURE_2D"}
  /\ \A k \in TonemapDraws :
       \A x \in RenderTargets(log[k].gl) :
         /\ BoundTarget(k) = x.target
         /\ log[k].gl.activeTexture = 0
         /\ log[k].gl.tex[0][x.target] = x.name

\* the implementation stores images of the size of the window
WindowStored == mainWindow.width <= driver.limit /\ mainWindow.height <= driver.limit

\* C37: after any sequence of F1 presses and window resizes msaaLevel is 1 or
\* MSAA_SAMPLES and the one texture renderTarget names is a multisample
\* texture exactly when msaaLevel > 1; while the window is no larger than the
\* images the implementation stores, it has GL_RGB16F storage with msaaLevel
\* samples when msaaLevel > 1 and without samples otherwise, and in a larger
\* window it has no storage; and the tonemapping pass binds it to the target
\* of the texture.
C37_TargetMatchesStorage ==
  /\ renderMode.msaaLevel \in {1, MSAA_SAMPLES}
  /\ \E x \in RenderTargets(gl) :
       /\ RenderTargets(gl) = {x}
       /\ x.target = "GL_TEXTURE_2D_MULTISAMPLE" <=> renderMode.msaaLevel > 1
       /\ x.target \in {"GL_TEXTURE_2D_MULTISAMPLE", "GL_TEXTURE_2D"}
       /\ WindowStored =>
            /\ x.format = "GL_RGB16F"
            /\ x.samples = (IF renderMode.msaaLevel > 1 THEN renderMode.msaaLevel ELSE 0)
       /\ ~WindowStored => (x.format = "GL_RGBA" /\ x.samples = 0)
  /\ \A k \in TonemapDraws :
       \A x \in RenderTargets(log[k].gl) :
         /\ BoundTarget(k) = x.target
         /\ log[k].gl.activeTexture = 0
         /\ log[k].gl.tex[0][x.target] = x.name

\* MSAA was switched off and the window resized; the tonemapping pass of the
\* next frame has drawn with the plain 2D render target bound
C37_Witness ==
  /\ keys = 2 /\ renderMode.msaaLevel = 1 /\ frame = 1 /\ DrawReturned = FALSE
  /\ pc = "idle"
  /\ \E k \in TonemapDraws :
       /\ BoundTarget(k) = "GL_TEXTURE_2D"
       /\ log[k].gl.tex[0]["GL_TEXTURE_2D"] = gl.handles.renderTarget
  /\ \E x \in RenderTargets(gl) : x.target = "GL_TEXTURE_2D" /\ x.samples = 0

\* the textures of a format that exist
TexturesOf(format) == { x \in gl.textures : x.format = format }

\* C38: after any number of resizes and MSAA toggles at most one HDR
\* render-target texture, one depth-stencil renderbuffer and one shadow
\* depth-map texture exist.
C38_NoAccumulation ==
  /\ Cardinality(TexturesOf("GL_RGB16F")) <= 1
  /\ Cardinality(gl.renderbuffers) <= 1
  /\ Cardinality(TexturesOf("GL_DEPTH_COMPONENT32")) <= 1

\* After one resize or MSAA toggle there is one render target and one
\* depth-stencil renderbuffer, and two depth-map textures: the one
\* depthMapTexture names and the one of initOpenGL, which no variable names
C38_Witness ==
  /\ keys = 1
  /\ Cardinality(TexturesOf("GL_RGB16F")) = 1
  /\ Cardinality(gl.renderbuffers) = 1
  /\ Cardinality(TexturesOf("GL_DEPTH_COMPONENT32")) = 2
  /\ \E x \in TexturesOf("GL_DEPTH_COMPONENT32") : x.name # gl.handles.depthMapTexture

\* ------------------------------------------------------------------------
\* C39: releases and the lifetime of the graphics context
\* ------------------------------------------------------------------------

\* The process before main: the Scene singleton is constructed by the
\* initialisation of the global reference scene; there is no window and no
\* context, and the counts of the scene are not read before Init assigns them
InitExit ==
  /\ pipeline = "spotlight"
  /\ numCubes = 0 /\ numLights = 0 /\ numSpotLights = 0
  /\ cubePositions = << >> /\ lights = << >> /\ spotLights = << >>
  /\ t = 0 /\ animate = FALSE
  /\ renderMode = RenderModeInitial
  /\ carmackReverse = TRUE
  /\ fov = FovDefault
  /\ geom = PlainGeom(NumLightsMain)
  /\ mainWindow = [width |-> 0, height |-> 0]
  /\ gl = [GLInitial EXCEPT !.context = "none"]
  /\ px = [fb \in {FB_WINDOW, FB_HDR, FB_DEPTHMAP} |-> ZeroFill]
  /\ log = << >> /\ console = << >>
  /\ inst = InstInitial
  /\ pc = "idle" /\ i = 0 /\ frame = 0 /\ keys = 0
  /\ mainLoop = "initOpenGL"
  /\ shouldClose = FALSE /\ iterations = 0
  /\ driver = ClearedDriver

\* initOpenGL: the step that fails, if any
InitOutcomes == {"ok", "glfwInit", "glfwCreateWindow", "gladLoadGL"}

\* main: if (!initOpenGL()) { printf; shutDown(); return -1; }; a step of
\* initOpenGL that fails returns before any GL command
Main_InitOpenGL ==
  /\ mainLoop = "initOpenGL"
  /\ \E o \in InitOutcomes :
       IF o = "ok"
       THEN \E impl \in Behaviours(driver, DefaultSize) :
              LET opened == initOpenGL(Ctx([gl EXCEPT !.context = "current"], << >>, px),
                                       renderMode, impl)
              IN /\ Apply(opened)
                 /\ mainWindow' = DefaultSize
                 /\ console' = console \o Printed(opened.log)
                 /\ mainLoop' = "compileShaders"
       ELSE /\ gl' = [gl EXCEPT !.context = IF o = "gladLoadGL" THEN "unloaded" ELSE "none"]
            /\ console' = console \o
                 (IF o = "glfwCreateWindow"
                  THEN << [text |-> "Failed to create the GLFW window!", status |-> ""] >>
                  ELSE IF o = "gladLoadGL"
                       THEN << [text |-> "GLAD failed!", status |-> ""] >>
                  ELSE << >>) \o
                 << [text |-> "Failed to initialize OpenGL!", status |-> ""] >>
            /\ mainLoop' = "failed"
            /\ UNCHANGED << px, log, mainWindow >>
  /\ UNCHANGED << scene, renderMode, carmackReverse, animate, fov, shouldClose, iterations,
                  driver, inst, pc, i, frame, keys >>

\* main: if (!compileShaders()) { printf; shutDown(); return -1; }
Main_CompileShaders ==
  /\ mainLoop = "compileShaders"
  /\ \E ok \in BOOLEAN :
       IF ok
       THEN gl' = Compiled(gl) /\ mainLoop' = "Init" /\ UNCHANGED console
       ELSE /\ console' = Append(console, [text |-> "Failed to compile shaders!", status |-> ""])
            /\ mainLoop' = "failed"
            /\ UNCHANGED gl
  /\ UNCHANGED << scene, settings, shouldClose, iterations, driver, px, log, inst, pc, i,
                  frame, keys >>

\* main: scene.Init(numCubes, numLights) with 5 cubes and 1 light, each
\* placed by the random numbers Init draws
Main_SceneInit ==
  /\ mainLoop = "Init"
  /\ numCubes' = NumCubesMain /\ numLights' = NumLightsMain /\ numSpotLights' = 1
  /\ cubePositions' \in InitCubePositions(NumCubesMain)
  /\ lights' \in InitLights(NumLightsMain)
  /\ spotLights' = InitSpotLights(pipeline, NumLightsMain)
  /\ \E policy \in driver.names : Apply(SceneObjects(Ctx(gl, << >>, px), policy))
  /\ mainLoop' = "while"
  /\ UNCHANGED << pipeline, t, geom, settings, shouldClose, iterations, driver, console,
                  inst, pc, i, frame, keys >>
\* of the scenes Init builds, those with every pushed cube at the same end
\* of the range of its random numbers
Main_SceneInitAt ==
  Main_SceneInit /\ \E upper \in BOOLEAN : cubePositions' = EndCubes(NumCubesMain, upper)

\* After main returned: the destructor of the Scene singleton, a static
\* object, runs during the termination of the process; without a context
\* its first command, glDeleteBuffers, may end the process
Exit_StaticDestruction ==
  /\ mainLoop = "exit"
  /\ \E o \in CallOutcomes(gl) :
       /\ Apply(IF o = "crash" THEN Cur ELSE Scene_Destructor(Cur))
       /\ mainLoop' = IF o = "crash" THEN "crashed" ELSE "terminated"
  /\ UNCHANGED << scene, settings, shouldClose, iterations, driver, console, inst, pc, i,
                  frame, keys >>

NextExit ==
  \/ Main_InitOpenGL
  \/ Main_CompileShaders
  \/ Main_SceneInitAt
  \/ NextMain
  \/ Exit_StaticDestruction
SpecExit == InitExit /\ [][NextExit]_vars

ReleaseOps ==
  {"glDeleteProgram", "glDeleteTextures", "glDeleteRenderbuffers", "glDeleteFramebuffers",
   "glDeleteBuffers", "glDeleteVertexArrays"}
\* the commands of the log that release an object that was created
Releases == { k \in 1..Len(log) : log[k].op \in ReleaseOps /\ log[k].n # 0 }

\* C39: every release of a GPU object, by shutDown or by the Scene destructor,
\* on the normal exit path and on the initialisation-failure paths, is issued
\* while the graphics context exists, before the window is destroyed and GLFW
\* terminated.
C39_ReleasesWithinContext ==
  \A k \in Releases :
    /\ ContextExists(log[k].gl)
    /\ \A j \in 1..(k - 1) : log[j].op \notin {"glfwDestroyWindow", "glfwTerminate"}

\* The normal exit path has run to the end of the process: shutDown released
\* its objects with the context current and destroyed the window, and the
\* Scene destructor released the instancing buffer afterwards
C39_Witness ==
  /\ mainLoop \in {"terminated", "crashed"} /\ shouldClose /\ frame > 0
  /\ \E k \in Releases : log[k].op = "glDeleteProgram" /\ log[k].gl.context = "current"
  /\ \E k \in Releases :
       /\ log[k].op = "glDeleteBuffers" /\ log[k].gl.context = "destroyed"
       /\ \E j \in 1..(k - 1) : log[j].op = "glfwTerminate"

\* ------------------------------------------------------------------------
\* C40: the zoom keys
\* ------------------------------------------------------------------------

\* the events of the zoom keys and of Backspace, any number of them
keyCallback_Zoom ==
  /\ pc = "idle"
  /\ \E key \in ZoomInKeys \cup ZoomOutKeys \cup {"GLFW_KEY_BACKSPACE"}, action \in KeyActions :
       keyCallback(key, action)
  /\ UNCHANGED keys

InitZoom == SceneInit("spotlight", 1, 1, PlainGeom(1), TRUE)
SpecZoom == InitZoom /\ [][keyCallback_Zoom]_vars

\* the last key event and what it found
LastEvent == log[1]
Pressed(keySet) == LastEvent.arg \in keySet /\ LastEvent.val = "GLFW_PRESS"

\* C40: a press of a zoom-in key lowers fov by one degree, not below 5, a
\* press of a zoom-out key raises it by one degree, not above 179, and any
\* other event of a zoom key, a release in particular, leaves fov unchanged.
C40_ZoomOnPressOnly ==
  (Len(log) = 1 /\ LastEvent.op = "keyCallback"
     /\ LastEvent.arg \in ZoomInKeys \cup ZoomOutKeys) =>
    /\ Pressed(ZoomInKeys) =>
         fov = (IF LastEvent.n - 1 < FovMin THEN FovMin ELSE LastEvent.n - 1)
    /\ Pressed(ZoomOutKeys) =>
         fov = (IF LastEvent.n + 1 > FovMax THEN FovMax ELSE LastEvent.n + 1)
    /\ LastEvent.val # "GLFW_PRESS" => fov = LastEvent.n

\* The release of the keypad + key has lowered fov from 45 to 44
C40_Witness ==
  /\ Len(log) = 1 /\ LastEvent.op = "keyCallback"
  /\ LastEvent.arg = "GLFW_KEY_KP_ADD" /\ LastEvent.val = "GLFW_RELEASE"
  /\ LastEvent.n = FovDefault /\ fov = FovDefault - 1

=============================================================================
